---- MODULE Spec2Model ----
(***************************************************************************)
(* A model of the maildirs storage engine: the file system of a mailbox    *)
(* (tmp, new, cur), the write protocol of Maildir::write, the entry        *)
(* handles of MaildirEntry with their flag mutations, copy, move and       *)
(* remove, and the legacy MailEntry handle.                                *)
(*                                                                         *)
(* File names are sequences of one-character strings, so that formatting   *)
(* and parsing of names are computed the way the code computes them.       *)
(***************************************************************************)
EXTENDS Integers, Sequences, FiniteSets, TLC

(***************************************************************************)
(* Bounds of the model.                                                    *)
(***************************************************************************)
\* number of bytes of every payload handed to write_new / write_cur
PayloadLen == 2
\* the wall clock returns one of the nanosecond values 0..MaxNanos
MaxNanos == 1

(***************************************************************************)
(* Program constants.                                                      *)
(***************************************************************************)
\* NEW (a reserved word of TLA+)
NEW_DIR == "new"
CUR == "cur"
TMP == "tmp"
DEFAULT_INFO_SEPARATOR == ":"

\* the device number reported by metadata() and the host name of gethostname()
Dev == 1
Hostname == <<"h">>
\* the seconds part of the wall clock (the clock collides on it in every call)
Secs == 1

(***************************************************************************)
(* Flags and their letter codes (flag.rs).                                 *)
(***************************************************************************)
Flag == {"Passed", "Replied", "Seen", "Trashed", "Draft", "Flagged"}

\* impl AsRef<str> for Flag
as_ref(f) ==
    CASE f = "Passed"  -> "P"
      [] f = "Replied" -> "R"
      [] f = "Seen"    -> "S"
      [] f = "Trashed" -> "T"
      [] f = "Draft"   -> "D"
      [] f = "Flagged" -> "F"

\* impl TryFrom<char> for Flag: the set holding the flag, empty on Err
try_from(c) == {f \in Flag : as_ref(f) = c}

(***************************************************************************)
(* Characters: the byte value of each character that occurs in a name,     *)
(* which is the order Rust's sort of &str uses.                            *)
(***************************************************************************)
Byte(c) ==
    CASE c = "#" -> 35 [] c = "," -> 44 [] c = "." -> 46
      [] c = "0" -> 48 [] c = "1" -> 49 [] c = "2" -> 50 [] c = "3" -> 51
      [] c = "4" -> 52 [] c = "5" -> 53 [] c = "6" -> 54 [] c = "7" -> 55
      [] c = "8" -> 56 [] c = "9" -> 57 [] c = ":" -> 58 [] c = ";" -> 59
      [] c = "D" -> 68 [] c = "F" -> 70 [] c = "I" -> 73 [] c = "M" -> 77
      [] c = "P" -> 80 [] c = "R" -> 82 [] c = "S" -> 83 [] c = "T" -> 84
      [] c = "V" -> 86 [] c = "a" -> 97 [] c = "b" -> 98 [] c = "c" -> 99
      [] c = "d" -> 100 [] c = "e" -> 101 [] c = "f" -> 102 [] c = "h" -> 104
      [] c = "m" -> 109 [] c = "x" -> 120

DigitChars == <<"0", "1", "2", "3", "4", "5", "6", "7", "8", "9",
                "a", "b", "c", "d", "e", "f">>

RECURSIVE Radix(_, _)
\* the digits of n in the given base, most significant first
Radix(n, base) ==
    IF n < base THEN <<DigitChars[n + 1]>>
    ELSE Radix(n \div base, base) \o <<DigitChars[(n % base) + 1]>>

\* format!("{n}")
Dec(n) == Radix(n, 10)
\* format!("{n:x}")
Hex(n) == Radix(n, 16)

(***************************************************************************)
(* Name codec (maildir.rs).                                                *)
(***************************************************************************)
RECURSIVE SortLetters(_)
\* flags.sort() followed by flags.join(""): the letters of a set in byte order
SortLetters(letters) ==
    IF letters = {} THEN <<>>
    ELSE LET least == CHOOSE c \in letters :
                          \A d \in letters : Byte(c) <= Byte(d)
         IN  <<least>> \o SortLetters(letters \ {least})

\* the letters of a set in the order the enumeration declares the flags
DeclaredOrder(letters) ==
    LET In(c) == c \in letters
    IN  SelectSeq(<<"P", "R", "S", "T", "D", "F">>, In)

\* a format_file_name that does not sort the letters
format_file_name_unsorted(sep, id, flags) ==
    id \o <<sep>> \o <<"2", ",">> \o DeclaredOrder({as_ref(f) : f \in flags})

\* format_file_name(sep, id, flags)
format_file_name(sep, id, flags) ==
    id \o <<sep>> \o <<"2", ",">> \o SortLetters({as_ref(f) : f \in flags})

\* the positions of sep in a name
SepPositions(name, sep) == {i \in 1..Len(name) : name[i] = sep}

\* str::rsplit_once(sep): <<TRUE, left, right>> at the last sep, or <<FALSE>>
rsplit_once(name, sep) ==
    LET at == SepPositions(name, sep)
    IN  IF at = {} THEN <<FALSE, name, <<>>>>
        ELSE LET i == CHOOSE k \in at : \A j \in at : j <= k
             IN  <<TRUE, SubSeq(name, 1, i - 1), SubSeq(name, i + 1, Len(name))>>

\* an id that does not split the name
EntryIdWhole(name, sep) == name

\* MaildirEntry::id on a file name
EntryId(name, sep) ==
    LET s == rsplit_once(name, sep)
    IN  IF s[1] THEN s[2] ELSE name

\* MaildirEntry::flags on a file name
EntryFlags(name, sep) ==
    LET s == rsplit_once(name, sep)
    IN  IF s[1] THEN UNION {try_from(s[3][i]) : i \in 1..Len(s[3])} ELSE {}

(***************************************************************************)
(* Identifier generator (maildir.rs).                                      *)
(***************************************************************************)
\* generate_tmp_id with the clock, the counter and the pid it read
generate_tmp_id(secs, nanos, counter, pid) ==
    Dec(secs) \o <<".", "#">> \o Hex(counter) \o <<"M">> \o Dec(nanos)
              \o <<"P">> \o Dec(pid)

\* a generate_id that builds the identifier from the clock's seconds and the
\* host name alone
generate_id_secs_only(tmpid, dev, ino, hostname) ==
    Dec(Secs) \o <<".">> \o hostname

\* generate_id: the second temporary id, then device, inode and host name
generate_id(tmpid, dev, ino, hostname) ==
    tmpid \o <<"V">> \o Dec(dev) \o <<"I">> \o Dec(ino) \o <<".">> \o hostname

(***************************************************************************)
(* The file system: a function from the paths that exist to their files.   *)
(* A path is the mailbox, the directory under it and the file name.        *)
(***************************************************************************)
Path(m, sub, name) == [mdir |-> m, sub |-> sub, name |-> name]

\* Path::parent
Parent(p) == <<p.mdir, p.sub>>
\* Maildir::cur, Maildir::new, Maildir::tmp
CurDir(m) == <<m, CUR>>
NewDir(m) == <<m, NEW_DIR>>
TmpDir(m) == <<m, TMP>>
\* Path::join of a directory and a file name
Join(dir, name) == Path(dir[1], dir[2], name)
\* Path::with_file_name
WithFileName(p, name) == Path(p.mdir, p.sub, name)

File(data, ino) == [data |-> data, ino |-> ino]

\* a function without one point of its domain
Without(f, p) == [q \in (DOMAIN f) \ {p} |-> f[q]]
\* a function with one point set
With(f, p, v) == [q \in (DOMAIN f) \cup {p} |-> IF q = p THEN v ELSE f[q]]

\* the inode numbers of the file system: it holds three files at most
Inos == {1, 2, 3}
\* inode numbers no existing file has
FreeInos(f) == Inos \ {f[p].ino : p \in DOMAIN f}

\* fs::rename succeeds iff the source exists (the directories always do)
RenameOk(f, from) == from \in DOMAIN f
\* fs::rename: the file leaves from and replaces whatever was at to; a rename of
\* a path onto itself changes nothing
RenameTo(f, from, to) ==
    IF from = to THEN f ELSE With(Without(f, from), to, f[from])

\* fs::copy succeeds iff the source exists
CopyOk(f, from) == from \in DOMAIN f
\* fs::copy opens the destination with create+truncate before it reads the
\* source: a copy of a path onto itself leaves an empty file
CopyTo(f, from, to, ino) ==
    IF from = to THEN With(f, to, File(<<>>, f[to].ino))
    ELSE With(f, to, File(f[from].data,
                          IF to \in DOMAIN f THEN f[to].ino ELSE ino))

\* the paths of a directory
Listing(f, dir) == {p \in DOMAIN f : Parent(p) = dir}

\* the paths Maildir::read yields: the files of new and cur whose name does not
\* start with a dot
ReadPaths(f, m) ==
    {p \in Listing(f, NewDir(m)) \cup Listing(f, CurDir(m)) :
        p.name = <<>> \/ p.name[1] # "."}

(***************************************************************************)
(* State.                                                                  *)
(***************************************************************************)
VARIABLES
    files,      \* the file system
    COUNTER,    \* static COUNTER of every process
    wpid,       \* the process each writer runs in
    writer,     \* the position and the locals of each call of Maildir::write
    appeared,   \* history: the writers whose payload has been seen in new or cur
    entry,      \* the MaildirEntry handle of each caller
    last,       \* history: the last operation on a handle, with the state before it
    mentry,     \* the legacy MailEntry handle of each caller
    codec,      \* the last call of the name codec, with its argument and result
    dirs,       \* the directories below the root of the collection
    coll        \* history: the last operation on the collection

vars == <<files, COUNTER, wpid, writer, appeared, entry, last, mentry,
          codec, dirs, coll>>

Writers == {1, 2}
Pids == {1, 2}
Mdirs == {"A", "B"}
\* the mailbox the writers deliver to
Inbox == "A"

\* the contents handed to the call of writer w
Payload(w) == [i \in 1..PayloadLen |-> w]
\* the flag sets handed to write_cur
WriteFlagSets == {{}, {"Passed", "Seen"}}

NoPath == Path("", "", <<>>)
EmptyFs == [p \in {} |-> File(<<>>, 0)]

\* Result<MaildirEntry>: Ok(entry), or the Err of the step named by at
Ok(path) == [ok |-> TRUE, at |-> "", path |-> path]
Err(at) == [ok |-> FALSE, at |-> at, path |-> NoPath]
Pending == [ok |-> FALSE, at |-> "pending", path |-> NoPath]

\* the writers whose payload, or a part of it, lies in new or cur of the mailbox
Shown(f) ==
    {w \in Writers : \E p \in DOMAIN f :
        /\ Parent(p) \in {NewDir(Inbox), CurDir(Inbox)}
        /\ f[p].data # <<>>
        /\ f[p].data[1] = w}

(***************************************************************************)
(* The write protocol: Maildir::write (maildir.rs), one action per step.   *)
(* faults tells whether the step may fail with an I/O error.               *)
(***************************************************************************)
\* a temporary path that lies in new instead of tmp
TmpPathInNew(m, name) == Join(NewDir(m), name)

\* self.tmp.join(generate_tmp_id())
TmpPathOf(m, name) == Join(TmpDir(m), name)

\* a next_path that lies in cur also for write_new
NextPathCurOnly(m, new, sep, id, flags) ==
    Join(CurDir(m), format_file_name(sep, id, flags))

\* a next_path whose name is the identifier also for write_cur
NextPathPlainId(m, new, sep, id, flags) ==
    Join(IF new THEN NewDir(m) ELSE CurDir(m), id)

\* next_parent_path.join(if new { id } else { format_file_name(id, flags) })
NextPath(m, new, sep, id, flags) ==
    IF new THEN Join(NewDir(m), id)
    ELSE Join(CurDir(m), format_file_name(sep, id, flags))

Return(w, res) == [writer EXCEPT ![w].pc = "done", ![w].res = res]

\* write_new(contents) or write_cur(contents, flags) is called
Call(w) ==
    /\ writer[w].pc = "idle"
    /\ \E new \in BOOLEAN, flags \in WriteFlagSets :
          writer' = [writer EXCEPT ![w].pc = "open", ![w].new = new,
                                   ![w].flags = IF new THEN {} ELSE flags,
                                   ![w].before = ReadPaths(files, Inbox)]
    /\ UNCHANGED <<files, COUNTER, wpid, appeared, entry, last, mentry,
                   codec, dirs, coll>>

\* a loop that tries the name it tried before: the counter moves only when the
\* file is made
OpenTmpSameName(w, faults) ==
    /\ writer[w].pc = "open"
    /\ LET pid == wpid[w]
           path == TmpPathOf(Inbox, generate_tmp_id(Secs, 0, COUNTER[pid], pid))
       IN  \/ /\ path \notin DOMAIN files
              /\ COUNTER' = [COUNTER EXCEPT ![pid] = @ + 1]
              /\ \E ino \in FreeInos(files) :
                    /\ files' = With(files, path, File(<<>>, ino))
                    /\ writer' = [writer EXCEPT ![w].pc = "write",
                                    ![w].tmp = path, ![w].ino = ino]
           \/ /\ path \in DOMAIN files
              /\ UNCHANGED <<files, writer, COUNTER>>
           \/ /\ faults
              /\ writer' = Return(w, Err("open"))
              /\ UNCHANGED <<files, COUNTER>>
    /\ appeared' = appeared \cup Shown(files')
    /\ UNCHANGED <<wpid, entry, last, mentry, codec, dirs, coll>>

\* a loop that reports a collision to the caller instead of going round
OpenTmpNoRetry(w, faults) ==
    /\ writer[w].pc = "open"
    /\ \E nanos \in 0..MaxNanos :
          LET pid == wpid[w]
              path == TmpPathOf(Inbox,
                          generate_tmp_id(Secs, nanos, COUNTER[pid], pid))
          IN  /\ COUNTER' = [COUNTER EXCEPT ![pid] = @ + 1]
              /\ \/ /\ path \notin DOMAIN files
                    /\ \E ino \in FreeInos(files) :
                          /\ files' = With(files, path, File(<<>>, ino))
                          /\ writer' = [writer EXCEPT ![w].pc = "write",
                                          ![w].tmp = path, ![w].ino = ino]
                 \/ /\ path \in DOMAIN files
                    /\ writer' = Return(w, Err("exists"))
                    /\ UNCHANGED files
                 \/ /\ faults
                    /\ writer' = Return(w, Err("open"))
                    /\ UNCHANGED files
    /\ appeared' = appeared \cup Shown(files')
    /\ UNCHANGED <<wpid, entry, last, mentry, codec, dirs, coll>>

\* one turn of the loop: a temporary name and an exclusive create in tmp
OpenTmp(w, faults) ==
    /\ writer[w].pc = "open"
    /\ \E nanos \in 0..MaxNanos :
          LET pid == wpid[w]
              path == TmpPathOf(Inbox,
                          generate_tmp_id(Secs, nanos, COUNTER[pid], pid))
          IN  /\ COUNTER' = [COUNTER EXCEPT ![pid] = @ + 1]
              /\ \/ /\ path \notin DOMAIN files
                    /\ \E ino \in FreeInos(files) :
                          /\ files' = With(files, path, File(<<>>, ino))
                          /\ writer' = [writer EXCEPT ![w].pc = "write",
                                          ![w].tmp = path, ![w].ino = ino]
                 \/ /\ path \in DOMAIN files
                    /\ UNCHANGED <<files, writer>>
                 \/ /\ faults
                    /\ writer' = Return(w, Err("open"))
                    /\ UNCHANGED files
    /\ appeared' = appeared \cup Shown(files')
    /\ UNCHANGED <<wpid, entry, last, mentry, codec, dirs, coll>>

\* tmp_file.write_all(contents), one byte for each write it issues
WriteAll(w, faults) ==
    /\ writer[w].pc = "write"
    /\ writer[w].tmp \in DOMAIN files
    /\ LET p == writer[w].tmp
           n == Len(files[p].data)
       IN  \/ /\ files' = With(files, p,
                     File(Append(files[p].data, Payload(w)[n + 1]), files[p].ino))
              /\ writer' = [writer EXCEPT ![w].pc =
                               IF n + 1 = PayloadLen THEN "sync" ELSE "write"]
           \/ /\ faults
              /\ writer' = Return(w, Err("write"))
              /\ UNCHANGED files
    /\ appeared' = appeared \cup Shown(files')
    /\ UNCHANGED <<COUNTER, wpid, entry, last, mentry, codec, dirs, coll>>

\* tmp_file.sync_all()
SyncAll(w, faults) ==
    /\ writer[w].pc = "sync"
    /\ \/ writer' = [writer EXCEPT ![w].pc = "genid"]
       \/ /\ faults
          /\ writer' = Return(w, Err("sync"))
    /\ UNCHANGED <<files, COUNTER, wpid, appeared, entry, last, mentry,
                   codec, dirs, coll>>

\* generate_id(tmp_file) and the destination path
GenerateId(w, faults) ==
    /\ writer[w].pc = "genid"
    /\ \/ \E nanos \in 0..MaxNanos :
             LET pid == wpid[w]
                 id == generate_id(
                           generate_tmp_id(Secs, nanos, COUNTER[pid], pid),
                           Dev, writer[w].ino, Hostname)
             IN  /\ COUNTER' = [COUNTER EXCEPT ![pid] = @ + 1]
                 /\ writer' = [writer EXCEPT ![w].pc = "rename",
                        ![w].next = NextPath(Inbox, writer[w].new,
                                        DEFAULT_INFO_SEPARATOR, id, writer[w].flags)]
       \/ /\ faults
          /\ writer' = Return(w, Err("metadata"))
          /\ UNCHANGED COUNTER
    /\ UNCHANGED <<files, wpid, appeared, entry, last, mentry,
                   codec, dirs, coll>>

\* a rename made of a copy and a removal, whose removal may fail
RenameTmpByCopy(w, faults) ==
    /\ writer[w].pc = "rename"
    /\ \/ /\ RenameOk(files, writer[w].tmp)
          /\ files' = RenameTo(files, writer[w].tmp, writer[w].next)
          /\ writer' = [writer EXCEPT ![w].pc = "reread"]
       \/ /\ faults /\ RenameOk(files, writer[w].tmp)
          /\ files' = With(files, writer[w].next, files[writer[w].tmp])
          /\ writer' = Return(w, Err("rename"))
    /\ appeared' = appeared \cup Shown(files')
    /\ UNCHANGED <<COUNTER, wpid, entry, last, mentry, codec, dirs, coll>>

\* fs::rename(tmp_path, &next_path)
RenameTmp(w, faults) ==
    /\ writer[w].pc = "rename"
    /\ \/ /\ RenameOk(files, writer[w].tmp)
          /\ files' = RenameTo(files, writer[w].tmp, writer[w].next)
          /\ writer' = [writer EXCEPT ![w].pc = "reread"]
       \/ /\ faults \/ ~RenameOk(files, writer[w].tmp)
          /\ writer' = Return(w, Err("rename"))
          /\ UNCHANGED files
    /\ appeared' = appeared \cup Shown(files')
    /\ UNCHANGED <<COUNTER, wpid, entry, last, mentry, codec, dirs, coll>>

\* a return of the handle without a look at the destination directory
RereadTrusting(w, faults) ==
    /\ writer[w].pc = "reread"
    /\ \/ writer' = Return(w, Ok(writer[w].next))
       \/ /\ faults
          /\ writer' = Return(w, Err("read_dir"))
    /\ UNCHANGED <<files, COUNTER, wpid, appeared, entry, last, mentry,
                   codec, dirs, coll>>

\* fs::read_dir(next_parent_path) and the search for next_path in it
Reread(w, faults) ==
    /\ writer[w].pc = "reread"
    /\ \/ /\ writer[w].next \in Listing(files, Parent(writer[w].next))
          /\ writer' = Return(w, Ok(writer[w].next))
       \/ /\ writer[w].next \notin Listing(files, Parent(writer[w].next))
          /\ writer' = Return(w, Err("find"))
       \/ /\ faults
          /\ writer' = Return(w, Err("read_dir"))
    /\ UNCHANGED <<files, COUNTER, wpid, appeared, entry, last, mentry,
                   codec, dirs, coll>>

(***************************************************************************)
(* Other callers of the mailbox while a write runs: an entry taken from    *)
(* Maildir::read is given new flags or removed.                            *)
(***************************************************************************)
\* MaildirEntry::update_flags on an entry of read()
OtherUpdateFlags(p, flags) ==
    /\ p \in ReadPaths(files, Inbox)
    /\ LET sep == DEFAULT_INFO_SEPARATOR
           next == WithFileName(p, format_file_name(sep, EntryId(p.name, sep), flags))
       IN  files' = RenameTo(files, p, next)
    /\ appeared' = appeared \cup Shown(files')
    /\ UNCHANGED <<COUNTER, wpid, writer, entry, last, mentry,
                   codec, dirs, coll>>

\* MaildirEntry::remove on an entry of read()
OtherRemove(p) ==
    /\ p \in ReadPaths(files, Inbox)
    /\ files' = Without(files, p)
    /\ appeared' = appeared \cup Shown(files')
    /\ UNCHANGED <<COUNTER, wpid, writer, entry, last, mentry,
                   codec, dirs, coll>>

(***************************************************************************)
(* Handles (defined here for the initial states; their operations follow). *)
(***************************************************************************)
Callers == {1, 2, 3}
\* a handle no entry was bound to yet
NoEntry == [path |-> NoPath, sep |-> DEFAULT_INFO_SEPARATOR, live |-> FALSE]
\* no operation yet
NoFile == File(<<>>, 0)
NoLast == [op |-> "none", ok |-> TRUE, tried |-> FALSE, arg |-> {}, mdir |-> "",
           entry |-> NoEntry, file |-> NoFile, kept |-> TRUE,
           count |-> [m \in Mdirs |-> 0], dest |-> FALSE]
NoMailEntry == [id |-> <<>>, flags |-> {}, path |-> NoPath, live |-> FALSE]
\* no call of the name codec made yet
NoCodec == [op |-> "none", sep |-> "", id |-> <<>>, supplied |-> <<>>,
            name |-> <<>>, rid |-> <<>>, rflags |-> {}]
\* no operation on the collection made yet
NoColl == [op |-> "none"]

(***************************************************************************)
(* The write protocol with I/O errors and other callers.                   *)
(***************************************************************************)
\* a file left in tmp by an earlier run of the process with pid 1
StaleTmp == Join(TmpDir(Inbox), generate_tmp_id(Secs, 0, 0, 1))
StaleFs == With(EmptyFs, StaleTmp, File(<<>>, 1))

InitWriter == [pc |-> "idle", new |-> TRUE, flags |-> {}, before |-> {},
               tmp |-> NoPath,
               ino |-> 0, next |-> NoPath, res |-> Pending]

InitWrite ==
    /\ files \in {EmptyFs, StaleFs}
    /\ COUNTER = [p \in Pids |-> 0]
    /\ wpid \in {f \in [Writers -> Pids] : f[1] = 1}
    /\ writer = [w \in Writers |-> InitWriter]
    /\ appeared = {}
    /\ entry = [h \in Callers |-> NoEntry]
    /\ last = [h \in Callers |-> NoLast]
    /\ mentry = [h \in Callers |-> NoMailEntry]
    /\ codec = NoCodec
    /\ dirs = {}
    /\ coll = NoColl

\* the flag sets the other callers set
OtherFlagSets == {{}, {"Seen"}}

\* one call of write_new or write_cur, with I/O errors, beside other callers
NextWrite ==
    \/ Call(1)
    \/ OpenTmp(1, TRUE)
    \/ WriteAll(1, TRUE)
    \/ SyncAll(1, TRUE)
    \/ GenerateId(1, TRUE)
    \/ RenameTmp(1, TRUE)
    \/ Reread(1, TRUE)
    \/ \E p \in DOMAIN files, X \in OtherFlagSets : OtherUpdateFlags(p, X)
    \/ \E p \in DOMAIN files : OtherRemove(p)

SpecWrite == InitWrite /\ [][NextWrite]_vars

(***************************************************************************)
(* Concurrent calls of write_new and write_cur, in one process or in two,  *)
(* without I/O errors and without other callers.                           *)
(***************************************************************************)
NextWriters ==
    \/ \E w \in Writers : Call(w)
    \/ \E w \in Writers : OpenTmp(w, FALSE)
    \/ \E w \in Writers : WriteAll(w, FALSE)
    \/ \E w \in Writers : SyncAll(w, FALSE)
    \/ \E w \in Writers : GenerateId(w, FALSE)
    \/ \E w \in Writers : RenameTmp(w, FALSE)
    \/ \E w \in Writers : Reread(w, FALSE)

SpecWriters == InitWrite /\ [][NextWriters]_vars

(***************************************************************************)
(* Claims about the write protocol.                                        *)
(***************************************************************************)
Visible(p) == Parent(p) \in {NewDir(Inbox), CurDir(Inbox)}
Returned(w) == writer[w].pc = "done"
Failed(w) == Returned(w) /\ ~writer[w].res.ok
\* the call has created its temporary file
Created(w) == writer[w].tmp # NoPath

\* C1: while write_new or write_cur runs, every file that a scan of new or cur
\* can see holds a complete payload; a part of a payload lies only in tmp.
C1_NoPartialFileInNewOrCur ==
    \A p \in DOMAIN files :
        Visible(p) => \E w \in Writers : files[p].data = Payload(w)

\* C1 witness: the call is in the middle of write_all, with a part of the
\* payload in its temporary file.
C1_Witness_PartialInTmp ==
    /\ writer[1].pc = "write"
    /\ writer[1].tmp \in DOMAIN files
    /\ Len(files[writer[1].tmp].data) \in 1..(PayloadLen - 1)

\* C2 as stated: whenever write_new or write_cur has returned an error, its
\* message was never seen in new or cur.
C2_AnyErrorNeverAppeared ==
    \A w \in Writers : Failed(w) => w \notin appeared

\* the steps of the protocol up to and including the rename
BeforeVisible == {"open", "write", "sync", "metadata", "rename"}

\* C2 amended: whenever write_new or write_cur has returned the error of a
\* step up to and including the rename, its message was never seen in new or cur.
C2_ErrorUpToRenameNeverAppeared ==
    \A w \in Writers :
        (Failed(w) /\ writer[w].res.at \in BeforeVisible) => w \notin appeared

\* C2 witness: the call has returned the error of its rename, after the whole
\* payload was written and synced.
C2_Witness_RenameFailed ==
    /\ Failed(1)
    /\ writer[1].res.at = "rename"
    /\ writer[1].tmp \in DOMAIN files
    /\ files[writer[1].tmp].data = Payload(1)

\* C3 as stated: once the call has created its temporary file, every error
\* return leaves no temporary file of the call in tmp.
C3_ErrorLeavesNoTmpFile ==
    \A w \in Writers :
        (Failed(w) /\ Created(w)) => writer[w].tmp \notin DOMAIN files

\* the identifier of the entry a call returned
ReturnedId(w) == EntryId(writer[w].res.path.name, DEFAULT_INFO_SEPARATOR)
\* a call holds its temporary file, or has renamed it
HoldsTmp(w) == writer[w].pc \in {"write", "sync", "genid", "rename"}
Renamed(w) == writer[w].pc \in {"reread", "done"}
\* the leading n bytes of the payload of w
Written(w, n) == SubSeq(Payload(w), 1, n)

\* C4: concurrent calls of write_new or write_cur on one mailbox never return
\* an error; their temporary files and their final files are their own
\* (nothing of them is overwritten or removed by another call); and two calls
\* that have returned name two distinct identifiers and two distinct files,
\* each holding its own payload.
C4_ConcurrentWritesKeepApart ==
    /\ \A w \in Writers : Returned(w) => writer[w].res.ok
    /\ \A w \in Writers : HoldsTmp(w) =>
          /\ writer[w].tmp \in DOMAIN files
          /\ files[writer[w].tmp] =
                 File(Written(w, Len(files[writer[w].tmp].data)), writer[w].ino)
    /\ \A w \in Writers : Renamed(w) =>
          /\ writer[w].next \in DOMAIN files
          /\ files[writer[w].next] = File(Payload(w), writer[w].ino)
    /\ \A w \in Writers : Returned(w) =>
          /\ writer[w].res.path = writer[w].next
          /\ Parent(writer[w].next) =
                 IF writer[w].new THEN NewDir(Inbox) ELSE CurDir(Inbox)
    /\ \A v, w \in Writers : (v # w /\ Returned(v) /\ Returned(w)) =>
          /\ ReturnedId(v) # ReturnedId(w)
          /\ writer[v].res.path # writer[w].res.path

\* C4 witness: two calls of write_new in two processes have both returned,
\* having read the same clock and the same counter value for their names.
C4_Witness_CollidingClocks ==
    /\ wpid[1] # wpid[2]
    /\ \A w \in Writers : Returned(w) /\ writer[w].res.ok /\ writer[w].new
    /\ \E nanos \in 0..MaxNanos, c \in 0..1 : \A w \in Writers :
          /\ writer[w].tmp = Join(TmpDir(Inbox),
                                  generate_tmp_id(Secs, nanos, c, wpid[w]))
          /\ \E ino \in Inos :
                writer[w].next.name =
                    generate_id(generate_tmp_id(Secs, nanos, c + 1, wpid[w]),
                                Dev, ino, Hostname)

(***************************************************************************)
(* Entry handles: MaildirEntry (maildir.rs).  Every operation records in   *)
(* last[h] what was called, the handle before the call, whether the call   *)
(* attempted a file-system change, the file the handle named, whether the  *)
(* file system was kept as it was, and the result.                         *)
(***************************************************************************)
\* MaildirEntry::new(path).with_info_separator(sep)
EntryOf(path, sep) == [path |-> path, sep |-> sep, live |-> TRUE]

\* the file at a path, NoFile when there is none
FileAt(f, p) == IF p \in DOMAIN f THEN f[p] ELSE NoFile

\* the number of entries Maildir::read yields in each mailbox
ReadCount(f) == [m \in Mdirs |-> Cardinality(ReadPaths(f, m))]

Rec(op, h, arg, m) ==
    [op |-> op, ok |-> TRUE, tried |-> FALSE, arg |-> arg, mdir |-> m,
     entry |-> entry[h], file |-> FileAt(files, entry[h].path),
     kept |-> (files' = files), count |-> ReadCount(files),
     dest |-> (Join(CurDir(m), entry[h].path.name) \in DOMAIN files)]

\* the files of a directory whose decoded identifier is id
Matches(f, dir, sep, id) == {p \in Listing(f, dir) : EntryId(p.name, sep) = id}

\* Maildir::find: the first match of the scan of new, then of cur
FindCandidates(f, m, sep, id) ==
    IF Matches(f, NewDir(m), sep, id) # {}
    THEN Matches(f, NewDir(m), sep, id)
    ELSE Matches(f, CurDir(m), sep, id)

\* Maildir::get(id): the handle is bound to the entry found
Get(h, m, id, faults) ==
    /\ UNCHANGED files
    /\ LET sep == DEFAULT_INFO_SEPARATOR
           found == FindCandidates(files, m, sep, id)
           rec == Rec("get", h, {}, m)
       IN  \/ \E p \in found :
                /\ entry' = [entry EXCEPT ![h] = EntryOf(p, sep)]
                /\ last' = [last EXCEPT ![h] = rec]
           \/ /\ faults \/ found = {}
              /\ last' = [last EXCEPT ![h] = [rec EXCEPT !.ok = FALSE]]
              /\ UNCHANGED entry
    /\ UNCHANGED <<COUNTER, wpid, writer, appeared, mentry, codec, dirs, coll>>

\* fs::rename(prev_path, &next_path)?; self.path = next_path;
RenameEntry(h, next, faults, rec) ==
    \/ /\ RenameOk(files, entry[h].path)
       /\ files' = RenameTo(files, entry[h].path, next)
       /\ entry' = [entry EXCEPT ![h].path = next]
       /\ last' = [last EXCEPT ![h] = [rec EXCEPT !.tried = TRUE]]
    \/ /\ faults \/ ~RenameOk(files, entry[h].path)
       /\ UNCHANGED <<files, entry>>
       /\ last' = [last EXCEPT ![h] = [rec EXCEPT !.tried = TRUE, !.ok = FALSE]]

\* MaildirEntry::format_file_name(flags) joined to the directory of the entry
NextFlagPath(e, flags) ==
    WithFileName(e.path, format_file_name(e.sep, EntryId(e.path.name, e.sep), flags))

\* an insert_flags that renames whether or not a flag was inserted
insert_flags_unconditional(h, X, faults) ==
    /\ entry[h].live
    /\ LET e == entry[h]
           F == EntryFlags(e.path.name, e.sep)
       IN  RenameEntry(h, NextFlagPath(e, F \cup X), faults,
                       Rec("insert_flags", h, X, ""))
    /\ UNCHANGED <<COUNTER, wpid, writer, appeared, mentry, codec, dirs, coll>>

\* an insert_flags whose fold computes changed && inserted, which is never true
insert_flags_never_changed(h, X, faults) ==
    /\ entry[h].live
    /\ UNCHANGED <<files, entry>>
    /\ last' = [last EXCEPT ![h] = Rec("insert_flags", h, X, "")]
    /\ UNCHANGED <<COUNTER, wpid, writer, appeared, mentry, codec, dirs, coll>>

\* MaildirEntry::insert_flags(flags)
insert_flags(h, X, faults) ==
    /\ entry[h].live
    /\ LET e == entry[h]
           F == EntryFlags(e.path.name, e.sep)
           changed == \E f \in X : f \notin F
           rec == Rec("insert_flags", h, X, "")
       IN  IF changed
           THEN RenameEntry(h, NextFlagPath(e, F \cup X), faults, rec)
           ELSE /\ UNCHANGED <<files, entry>>
                /\ last' = [last EXCEPT ![h] = rec]
    /\ UNCHANGED <<COUNTER, wpid, writer, appeared, mentry, codec, dirs, coll>>

\* MaildirEntry::update_flags(flags)
update_flags(h, X, faults) ==
    /\ entry[h].live
    /\ RenameEntry(h, NextFlagPath(entry[h], X), faults, Rec("update_flags", h, X, ""))
    /\ UNCHANGED <<COUNTER, wpid, writer, appeared, mentry, codec, dirs, coll>>

\* MaildirEntry::remove_flags(flags)
remove_flags(h, X, faults) ==
    /\ entry[h].live
    /\ LET e == entry[h]
           F == EntryFlags(e.path.name, e.sep)
           changed == \E f \in X : f \in F
           rec == Rec("remove_flags", h, X, "")
       IN  IF changed
           THEN RenameEntry(h, NextFlagPath(e, F \ X), faults, rec)
           ELSE /\ UNCHANGED <<files, entry>>
                /\ last' = [last EXCEPT ![h] = rec]
    /\ UNCHANGED <<COUNTER, wpid, writer, appeared, mentry, codec, dirs, coll>>

\* a guard of copy and move that compares the whole path of the entry with
\* the cur directory, so that it never holds
SameDirNever(e, m) == FALSE

\* Some(mdir.cur()) == self.path().parent()
SameDir(e, m) == CurDir(m) = Parent(e.path)

\* the inode of the file a copy creates or overwrites
CopyIno(f, to) ==
    IF to \in DOMAIN f THEN f[to].ino
    ELSE CHOOSE i \in FreeInos(f) : \A j \in FreeInos(f) : i <= j

\* MaildirEntry::copy(mdir); a copy that fails may leave the destination
\* a copy that writes into new of the destination
copy_into_new(h, m, faults) ==
    /\ entry[h].live
    /\ LET e == entry[h]
           to == Join(NewDir(m), e.path.name)
           rec == Rec("copy", h, {}, m)
           can == CopyOk(files, e.path)
                      /\ (to \in DOMAIN files \/ FreeInos(files) # {})
       IN  IF SameDir(e, m)
           THEN /\ UNCHANGED files
                /\ last' = [last EXCEPT ![h] = rec]
           ELSE \/ /\ can
                   /\ files' = CopyTo(files, e.path, to, CopyIno(files, to))
                   /\ last' = [last EXCEPT ![h] = [rec EXCEPT !.tried = TRUE]]
                \/ /\ ~can
                   /\ UNCHANGED files
                   /\ last' = [last EXCEPT ![h] =
                                  [rec EXCEPT !.tried = TRUE, !.ok = FALSE]]
    /\ UNCHANGED <<entry, COUNTER, wpid, writer, appeared, mentry,
                   codec, dirs, coll>>

\* created and empty
copy(h, m, faults) ==
    /\ entry[h].live
    /\ LET e == entry[h]
           to == Join(CurDir(m), e.path.name)
           rec == Rec("copy", h, {}, m)
           can == CopyOk(files, e.path)
                      /\ (to \in DOMAIN files \/ FreeInos(files) # {})
       IN  IF SameDir(e, m)
           THEN /\ UNCHANGED files
                /\ last' = [last EXCEPT ![h] = rec]
           ELSE \/ /\ can
                   /\ files' = CopyTo(files, e.path, to, CopyIno(files, to))
                   /\ last' = [last EXCEPT ![h] = [rec EXCEPT !.tried = TRUE]]
                \/ /\ faults \/ ~can
                   /\ \/ UNCHANGED files
                      \/ /\ faults /\ can /\ to # e.path
                         /\ files' = With(files, to, File(<<>>, CopyIno(files, to)))
                   /\ last' = [last EXCEPT ![h] =
                                  [rec EXCEPT !.tried = TRUE, !.ok = FALSE]]
    /\ UNCHANGED <<entry, COUNTER, wpid, writer, appeared, mentry,
                   codec, dirs, coll>>

\* MaildirEntry::move(mdir): it takes &self, the handle keeps its path
move(h, m, faults) ==
    /\ entry[h].live
    /\ LET e == entry[h]
           to == Join(CurDir(m), e.path.name)
           rec == Rec("move", h, {}, m)
       IN  IF SameDir(e, m)
           THEN /\ UNCHANGED files
                /\ last' = [last EXCEPT ![h] = rec]
           ELSE \/ /\ RenameOk(files, e.path)
                   /\ files' = RenameTo(files, e.path, to)
                   /\ last' = [last EXCEPT ![h] = [rec EXCEPT !.tried = TRUE]]
                \/ /\ faults \/ ~RenameOk(files, e.path)
                   /\ UNCHANGED files
                   /\ last' = [last EXCEPT ![h] =
                                  [rec EXCEPT !.tried = TRUE, !.ok = FALSE]]
    /\ UNCHANGED <<entry, COUNTER, wpid, writer, appeared, mentry,
                   codec, dirs, coll>>

\* MaildirEntry::remove()
remove(h, faults) ==
    /\ entry[h].live
    /\ LET rec == [Rec("remove", h, {}, "") EXCEPT !.tried = TRUE]
       IN  \/ /\ entry[h].path \in DOMAIN files
              /\ files' = Without(files, entry[h].path)
              /\ last' = [last EXCEPT ![h] = rec]
           \/ /\ faults \/ entry[h].path \notin DOMAIN files
              /\ UNCHANGED files
              /\ last' = [last EXCEPT ![h] = [rec EXCEPT !.ok = FALSE]]
    /\ UNCHANGED <<entry, COUNTER, wpid, writer, appeared, mentry,
                   codec, dirs, coll>>

(***************************************************************************)
(* One caller working on the entries of two mailboxes, with I/O errors.    *)
(***************************************************************************)
\* the identifier of the one message delivered before, and its payload
Id1 == generate_id(generate_tmp_id(Secs, 0, 1, 1), Dev, 2, Hostname)
\* the flags the callers hand to the flag operations
FlagArgs == SUBSET {"Seen", "Draft"}

\* the message as write_new or write_cur left it in mailbox A, beside a stale
\* file in tmp
InitEntryFs ==
    {With(StaleFs, Join(NewDir("A"), Id1), File(Payload(1), 2))}
    \cup {With(StaleFs,
               Join(CurDir("A"), format_file_name(DEFAULT_INFO_SEPARATOR, Id1, F)),
               File(Payload(1), 2)) : F \in FlagArgs}

InitEntry ==
    /\ files \in InitEntryFs
    /\ COUNTER = [p \in Pids |-> 0]
    /\ wpid = [w \in Writers |-> 1]
    /\ writer = [w \in Writers |-> InitWriter]
    /\ appeared = {}
    /\ entry = [h \in Callers |-> NoEntry]
    /\ last = [h \in Callers |-> NoLast]
    /\ mentry = [h \in Callers |-> NoMailEntry]
    /\ codec = NoCodec
    /\ dirs = {}
    /\ coll = NoColl

NextEntry ==
    \/ \E m \in Mdirs : Get(1, m, Id1, TRUE)
    \/ \E X \in FlagArgs : insert_flags(1, X, TRUE)
    \/ \E X \in FlagArgs : update_flags(1, X, TRUE)
    \/ \E X \in FlagArgs : remove_flags(1, X, TRUE)
    \/ \E m \in Mdirs : copy(1, m, TRUE)
    \/ \E m \in Mdirs : move(1, m, TRUE)
    \/ remove(1, TRUE)

SpecEntry == InitEntry /\ [][NextEntry]_vars

(***************************************************************************)
(* Claims about the operations of one entry handle.                        *)
(***************************************************************************)
FlagOps == {"insert_flags", "remove_flags", "update_flags"}
\* the flag set an operation asks for, from the set F before it
Asked(op, F, X) ==
    CASE op = "insert_flags" -> F \cup X
      [] op = "remove_flags" -> F \ X
      [] op = "update_flags" -> X
\* the flags() of a handle
FlagsOf(e) == EntryFlags(e.path.name, e.sep)
\* the letter of each flag, and the letters of a set in sorted order
Letter == [f \in Flag |->
              CASE f = "Passed" -> "P" [] f = "Replied" -> "R" [] f = "Seen" -> "S"
                [] f = "Trashed" -> "T" [] f = "Draft" -> "D" [] f = "Flagged" -> "F"]
Canonical(S) ==
    LET In(c) == \E f \in S : Letter[f] = c
    IN  SelectSeq(<<"D", "F", "P", "R", "S", "T">>, In)

\* a flag operation that renamed, or a move to another mailbox, has succeeded
Mutated(h) ==
    /\ last[h].ok /\ last[h].tried
    /\ \/ last[h].op \in FlagOps
       \/ last[h].op = "move" /\ last[h].mdir # last[h].entry.path.mdir

\* C7 as stated: after every successful mutation through a handle (a flag
\* operation that renamed, a move to another mailbox) a file exists at the
\* path the handle remembers, and after a move that path lies in the cur
\* directory of the destination.
C7_HandleFollowsTheFile ==
    \A h \in Callers :
        Mutated(h) =>
            /\ entry[h].path \in DOMAIN files
            /\ last[h].op = "move" =>
                   entry[h].path =
                       Join(CurDir(last[h].mdir), last[h].entry.path.name)

\* C8: copy(M) and move(M) of an entry whose parent directory is M's cur
\* directory succeed without attempting or making any change of the file
\* system or of the handle; and no copy or move of an existing message into
\* its own mailbox, succeeded or failed, leaves that mailbox without a file of
\* the same name and content.
C8_SelfCopyAndMoveKeepTheMessage ==
    \A h \in Callers : last[h].op \in {"copy", "move"} =>
        LET pre == last[h].entry.path
            m == last[h].mdir
        IN  /\ Parent(pre) = CurDir(m) =>
                  /\ last[h].ok /\ ~last[h].tried /\ last[h].kept
                  /\ entry[h] = last[h].entry
                  /\ FileAt(files, pre) = last[h].file
            /\ (pre.mdir = m /\ last[h].file # NoFile) =>
                  \E q \in DOMAIN files :
                      /\ q.mdir = m /\ q.name = pre.name
                      /\ files[q].data = last[h].file.data

\* C8 witness: copy(M) was called on an existing entry of M's cur directory.
C8_Witness_SelfCopy ==
    /\ last[1].op = "copy"
    /\ Parent(last[1].entry.path) = CurDir(last[1].mdir)
    /\ last[1].file.data = Payload(1)

\* C9: a successful insert_flags(X), remove_flags(X) or update_flags(X) on an
\* entry with flags F leaves the handle with flags F \cup X, F \ X or X; when
\* it renamed, the file is now in the same directory under the name
\* identifier + separator + "2," + the sorted letters of the new set, with
\* its content, and the handle names that path.
C9_FlagOperationsSetTheFlags ==
    \A h \in Callers : (last[h].op \in FlagOps /\ last[h].ok) =>
        LET pre == last[h].entry
            N == Asked(last[h].op, FlagsOf(pre), last[h].arg)
            name == EntryId(pre.path.name, pre.sep)
                        \o <<pre.sep, "2", ",">> \o Canonical(N)
        IN  /\ FlagsOf(entry[h]) = N
            /\ last[h].tried =>
                  /\ entry[h].path = Path(pre.path.mdir, pre.path.sub, name)
                  /\ FileAt(files, entry[h].path) = last[h].file
                  /\ last[h].file # NoFile
                  /\ pre.path # entry[h].path => pre.path \notin DOMAIN files

\* C9 witness: insert_flags put Seen beside Draft and renamed the file.
C9_Witness_InsertRenamed ==
    /\ last[1].op = "insert_flags" /\ last[1].ok /\ last[1].tried
    /\ FlagsOf(last[1].entry) = {"Draft"}
    /\ last[1].arg = {"Seen"}
    /\ FlagsOf(entry[1]) = {"Draft", "Seen"}

\* C10: insert_flags(X) with X within the flags of the entry, and
\* remove_flags(X) with X disjoint from them, succeed without attempting a
\* rename: the file system and the handle are as before the call.
C10_UnchangedSetAttemptsNoRename ==
    \A h \in Callers :
        LET F == FlagsOf(last[h].entry)
            X == last[h].arg
        IN  (\/ last[h].op = "insert_flags" /\ X \subseteq F
             \/ last[h].op = "remove_flags" /\ X \cap F = {}) =>
                /\ last[h].ok /\ ~last[h].tried /\ last[h].kept
                /\ entry[h] = last[h].entry

\* C10 witness: insert_flags was called with a flag the entry already had.
C10_Witness_SetTwice ==
    /\ last[1].op = "insert_flags"
    /\ last[1].arg = {"Seen"}
    /\ "Seen" \in FlagsOf(last[1].entry)
    /\ last[1].file # NoFile

(***************************************************************************)
(* Two callers that hold handles to the same entry and call one flag       *)
(* operation each, without I/O errors; a third caller then gets the entry  *)
(* by its identifier.                                                      *)
(***************************************************************************)
InitRace ==
    /\ files \in InitEntryFs
    /\ COUNTER = [p \in Pids |-> 0]
    /\ wpid = [w \in Writers |-> 1]
    /\ writer = [w \in Writers |-> InitWriter]
    /\ appeared = {}
    /\ \E p \in ReadPaths(files, "A") :
          entry = [h \in Callers |->
                      IF h = 3 THEN NoEntry ELSE EntryOf(p, DEFAULT_INFO_SEPARATOR)]
    /\ last = [h \in Callers |-> NoLast]
    /\ mentry = [h \in Callers |-> NoMailEntry]
    /\ codec = NoCodec
    /\ dirs = {}
    /\ coll = NoColl

Racers == {1, 2}
Idle(h) == last[h].op = "none"

NextRace ==
    \/ \E h \in Racers, X \in FlagArgs : Idle(h) /\ insert_flags(h, X, FALSE)
    \/ \E h \in Racers, X \in FlagArgs : Idle(h) /\ update_flags(h, X, FALSE)
    \/ \E h \in Racers, X \in FlagArgs : Idle(h) /\ remove_flags(h, X, FALSE)
    \/ (\A h \in Racers : ~Idle(h)) /\ Idle(3) /\ Get(3, "A", Id1, FALSE)

SpecRace == InitRace /\ [][NextRace]_vars

\* the call of h asked for a flag set other than the one its handle had
ChangesFlags(h) ==
    /\ last[h].op \in FlagOps
    /\ Asked(last[h].op, FlagsOf(last[h].entry), last[h].arg)
           # FlagsOf(last[h].entry)

\* the files of mailbox A, in new and cur, that decode to the identifier
FilesOf(id) ==
    {p \in ReadPaths(files, "A") : EntryId(p.name, DEFAULT_INFO_SEPARATOR) = id}

\* C5: when two callers hold handles to the same entry and each has called a
\* flag operation that changes its flag set, exactly one of the two renames
\* took effect; the other call failed and its handle is stale (no file at the
\* path it remembers); exactly one file of the message is in the mailbox, at
\* the path the successful caller remembers; and a get by the identifier
\* made afterwards succeeds with a handle to that file.
C5_OneRenameWins ==
    (ChangesFlags(1) /\ ChangesFlags(2)) =>
        \E won, lost \in Racers :
            /\ won # lost
            /\ last[won].ok /\ last[won].tried
            /\ ~last[lost].ok /\ last[lost].tried
            /\ entry[lost] = last[lost].entry
            /\ entry[lost].path \notin DOMAIN files
            /\ FilesOf(Id1) = {entry[won].path}
            /\ files[entry[won].path] = last[won].file
            /\ last[3].op = "get" =>
                  /\ last[3].ok
                  /\ entry[3].live /\ entry[3].path = entry[won].path

\* C5 witness: both callers have inserted a flag the entry did not have, and
\* the third caller has got the entry afterwards.
C5_Witness_BothInserted ==
    /\ \A h \in Racers : last[h].op = "insert_flags" /\ ChangesFlags(h)
    /\ last[3].op = "get"

(***************************************************************************)
(* The legacy handle: MailEntry (entry.rs), which keeps the identifier and *)
(* the flags in memory beside the path.                                    *)
(***************************************************************************)
\* INFORMATIONAL_SUFFIX_SEPARATOR
SEP == ":"

RECURSIVE Split(_, _)
\* str::split(sep): the pieces between the separators
Split(name, sep) ==
    LET at == SepPositions(name, sep)
    IN  IF at = {} THEN <<name>>
        ELSE LET i == CHOOSE k \in at : \A j \in at : k <= j
             IN  <<SubSeq(name, 1, i - 1)>>
                     \o Split(SubSeq(name, i + 1, Len(name)), sep)

RECURSIVE Concat(_)
Concat(pieces) ==
    IF pieces = <<>> THEN <<>> ELSE Head(pieces) \o Concat(Tail(pieces))

\* MailEntry::from_path, the identifier: the first piece, then every piece
\* but the last
LegacyId(name) ==
    LET pieces == Split(name, SEP)
    IN  pieces[1] \o Concat(SubSeq(pieces, 2, Len(pieces) - 1))

\* the positions where SEP + "2," starts in a name
InfoPositions(name) ==
    {i \in 1..(Len(name) - 2) :
        name[i] = SEP /\ name[i + 1] = "2" /\ name[i + 2] = ","}

\* MailEntry::from_path, the flags: the letters after the last SEP + "2,", or
\* of the whole name when it has none
LegacyFlags(name) ==
    LET at == InfoPositions(name)
        tail == IF at = {} THEN name
                ELSE LET i == CHOOSE k \in at : \A j \in at : j <= k
                     IN  SubSeq(name, i + 3, Len(name))
    IN  UNION {try_from(tail[i]) : i \in 1..Len(tail)}

\* MailEntry::from_path
from_path(path) ==
    [id |-> LegacyId(path.name), flags |-> LegacyFlags(path.name),
     path |-> path, live |-> TRUE]

LegacyRec(op, h, arg) ==
    [op |-> op, ok |-> TRUE, tried |-> FALSE, arg |-> arg, mdir |-> "",
     entry |-> mentry[h], file |-> FileAt(files, mentry[h].path),
     kept |-> (files' = files), count |-> ReadCount(files), dest |-> FALSE]

\* Maildir::find of lib.rs: the first entry of new, then of cur, with the id
legacy_find(h, m, id) ==
    /\ UNCHANGED files
    /\ LET inNew == {p \in Listing(files, NewDir(m)) : LegacyId(p.name) = id}
           inCur == {p \in Listing(files, CurDir(m)) : LegacyId(p.name) = id}
           found == IF inNew # {} THEN inNew ELSE inCur
           rec == LegacyRec("find", h, {})
       IN  \/ \E p \in found :
                /\ mentry' = [mentry EXCEPT ![h] = from_path(p)]
                /\ last' = [last EXCEPT ![h] = rec]
           \/ /\ found = {}
              /\ last' = [last EXCEPT ![h] = [rec EXCEPT !.ok = FALSE]]
              /\ UNCHANGED mentry
    /\ UNCHANGED <<COUNTER, wpid, writer, appeared, entry, codec, dirs, coll>>

\* validate_id
validate_id(id) == \A i \in 1..Len(id) : id[i] # "/"

\* MailEntry::update, after the caller has set me as the handle: the path is
\* set before the rename is made
update(h, me, faults, rec) ==
    LET new_path == WithFileName(me.path,
                        me.id \o <<SEP>> \o <<"2", ",">>
                              \o SortLetters({as_ref(f) : f \in me.flags}))
    IN  IF new_path \in DOMAIN files
        THEN /\ UNCHANGED files
             /\ mentry' = [mentry EXCEPT ![h] = me]
             /\ last' = [last EXCEPT ![h] = [rec EXCEPT !.ok = FALSE]]
        ELSE \/ /\ RenameOk(files, me.path)
                /\ files' = RenameTo(files, me.path, new_path)
                /\ mentry' = [mentry EXCEPT ![h] = [me EXCEPT !.path = new_path]]
                /\ last' = [last EXCEPT ![h] = [rec EXCEPT !.tried = TRUE]]
             \/ /\ faults \/ ~RenameOk(files, me.path)
                /\ UNCHANGED files
                /\ mentry' = [mentry EXCEPT ![h] = [me EXCEPT !.path = new_path]]
                /\ last' = [last EXCEPT ![h] =
                               [rec EXCEPT !.tried = TRUE, !.ok = FALSE]]

\* MailEntry::set_flag(flag)
set_flag(h, flag, faults) ==
    /\ mentry[h].live
    /\ LET rec == LegacyRec("set_flag", h, {flag})
       IN  IF flag \notin mentry[h].flags
           THEN update(h, [mentry[h] EXCEPT !.flags = @ \cup {flag}], faults, rec)
           ELSE /\ UNCHANGED <<files, mentry>>
                /\ last' = [last EXCEPT ![h] = rec]
    /\ UNCHANGED <<COUNTER, wpid, writer, appeared, entry, codec, dirs, coll>>

\* MailEntry::unset_flag(flag)
unset_flag(h, flag, faults) ==
    /\ mentry[h].live
    /\ LET rec == LegacyRec("unset_flag", h, {flag})
       IN  IF flag \in mentry[h].flags
           THEN update(h, [mentry[h] EXCEPT !.flags = @ \ {flag}], faults, rec)
           ELSE /\ UNCHANGED <<files, mentry>>
                /\ last' = [last EXCEPT ![h] = rec]
    /\ UNCHANGED <<COUNTER, wpid, writer, appeared, entry, codec, dirs, coll>>

\* MailEntry::set_id(id)
set_id(h, id, faults) ==
    /\ mentry[h].live
    /\ LET rec == LegacyRec("set_id", h, {id})
       IN  IF validate_id(id)
           THEN update(h, [mentry[h] EXCEPT !.id = id], faults, rec)
           ELSE /\ UNCHANGED <<files, mentry>>
                /\ last' = [last EXCEPT ![h] = [rec EXCEPT !.ok = FALSE]]
    /\ UNCHANGED <<COUNTER, wpid, writer, appeared, entry, codec, dirs, coll>>

\* MailEntry::move_to(folder), of move_to_new and move_to_cur
move_to(h, folder, faults) ==
    /\ mentry[h].live
    /\ LET me == mentry[h]
           rec == LegacyRec("move_to", h, {folder})
           new_path == Path(me.path.mdir, folder, me.path.name)
       IN  IF me.path.sub = folder
           THEN /\ UNCHANGED <<files, mentry>>
                /\ last' = [last EXCEPT ![h] = rec]
           ELSE \/ /\ RenameOk(files, me.path)
                   /\ files' = RenameTo(files, me.path, new_path)
                   /\ mentry' = [mentry EXCEPT ![h].path = new_path]
                   /\ last' = [last EXCEPT ![h] = [rec EXCEPT !.tried = TRUE]]
                \/ /\ faults \/ ~RenameOk(files, me.path)
                   /\ UNCHANGED <<files, mentry>>
                   /\ last' = [last EXCEPT ![h] =
                                  [rec EXCEPT !.tried = TRUE, !.ok = FALSE]]
    /\ UNCHANGED <<COUNTER, wpid, writer, appeared, entry, codec, dirs, coll>>

(***************************************************************************)
(* One caller working on an entry through the legacy handle, with I/O      *)
(* errors.                                                                 *)
(***************************************************************************)
\* the identifiers handed to set_id: the entry's own, another, an invalid one
IdArgs == {Id1, <<"m">>, <<"a", "/", "b">>}
LegacyFlagArgs == {"Seen", "Draft"}

NextLegacy ==
    \/ legacy_find(1, "A", Id1)
    \/ legacy_find(1, "A", <<"m">>)
    \/ \E f \in LegacyFlagArgs : set_flag(1, f, TRUE)
    \/ \E f \in LegacyFlagArgs : unset_flag(1, f, TRUE)
    \/ \E id \in IdArgs : set_id(1, id, TRUE)
    \/ \E folder \in {NEW_DIR, CUR} : move_to(1, folder, TRUE)

SpecLegacy == InitEntry /\ [][NextLegacy]_vars

LegacyOps == {"set_flag", "unset_flag", "set_id", "move_to"}

\* C6 as stated, for the legacy handle: when set_flag, unset_flag, set_id or a
\* move fails, the file is still at its prior path and the identifier, the
\* flag set and the path of the handle are what they were before the call.
C6_FailureLeavesFileAndHandle ==
    \A h \in Callers : (last[h].op \in LegacyOps /\ ~last[h].ok) =>
        /\ mentry[h] = last[h].entry
        /\ FileAt(files, last[h].entry.path) = last[h].file

\* The part of C6 that holds: when insert_flags, remove_flags, update_flags,
\* copy, move or remove of MaildirEntry fails, the file is still at its prior
\* path and the handle is what it was before the call.
MaildirEntryFailureLeavesFileAndHandle ==
    \A h \in Callers :
        (last[h].op \in FlagOps \cup {"copy", "move", "remove"} /\ ~last[h].ok) =>
            /\ entry[h] = last[h].entry
            /\ FileAt(files, last[h].entry.path) = last[h].file

(***************************************************************************)
(* The name codec called on its own: format_file_name, MaildirEntry::id    *)
(* and MaildirEntry::flags, MailEntry::from_path.                          *)
(***************************************************************************)
\* the longest identifier handed to format_file_name
MaxIdLen == 2
\* the most flags handed to format_file_name in an arbitrary order
MaxSupplied == 2
\* the longest file name handed to the decoders
MaxNameLen == 4

\* the sequences over A of length at most n
Seqs(A, n) == UNION {[1..k -> A] : k \in 0..n}

\* DEFAULT_INFO_SEPARATOR of the two targets
Separators == {":", ";"}
\* the characters of the identifiers, the separators and "/" among them
IdChars == {"a", "S", "2", ":", "/"}
\* the characters of the file names
NameChars == {"a", "S", "D", "2", ",", ":", ";"}

\* flags.into_iter().collect() into a HashSet
Collect(supplied) == {supplied[i] : i \in 1..Len(supplied)}

\* the flags of a set in the order of declaration, and in the reverse order
FlagSeq(S) ==
    LET In(f) == f \in S
    IN  SelectSeq(<<"Passed", "Replied", "Seen", "Trashed", "Draft", "Flagged">>, In)
Reverse(q) == [i \in 1..Len(q) |-> q[Len(q) + 1 - i]]

\* the orders in which flags are supplied: every short sequence, and every
\* set in two opposite orders
SuppliedOrders ==
    Seqs(Flag, MaxSupplied)
        \cup {FlagSeq(S) : S \in SUBSET Flag}
        \cup {Reverse(FlagSeq(S)) : S \in SUBSET Flag}

CodecFrame ==
    UNCHANGED <<files, COUNTER, wpid, writer, appeared, entry, last, mentry,
                dirs, coll>>

\* Maildir::format_file_name(id, flags.into_iter().collect())
encode ==
    /\ codec.op = "to_encode"
    /\ codec' = [codec EXCEPT !.op = "encode",
                              !.name = format_file_name(codec.sep, codec.id,
                                                        Collect(codec.supplied))]
    /\ CodecFrame

\* MaildirEntry::id and MaildirEntry::flags on the name just encoded
decode ==
    /\ codec.op = "encode"
    /\ codec' = [codec EXCEPT !.op = "decode",
                              !.rid = EntryId(codec.name, codec.sep),
                              !.rflags = EntryFlags(codec.name, codec.sep)]
    /\ CodecFrame

\* MaildirEntry::id and MaildirEntry::flags on the name of any file
decode_name ==
    /\ codec.op = "to_decode"
    /\ codec' = [codec EXCEPT !.op = "decode_name",
                              !.rid = EntryId(codec.name, codec.sep),
                              !.rflags = EntryFlags(codec.name, codec.sep)]
    /\ CodecFrame

\* MailEntry::from_path on the name of any file
from_path_name ==
    /\ codec.op = "to_decode"
    /\ LET e == from_path(Path(Inbox, CUR, codec.name))
       IN  codec' = [codec EXCEPT !.op = "from_path", !.sep = SEP,
                                  !.rid = e.id, !.rflags = e.flags]
    /\ CodecFrame

\* the arguments of a call that encodes: a separator, an identifier, flags
ToEncode(sep, id, supplied) ==
    [NoCodec EXCEPT !.op = "to_encode", !.sep = sep, !.id = id,
                    !.supplied = supplied]
\* the arguments of a call that decodes: a separator and a file name
ToDecode(sep, name) ==
    [NoCodec EXCEPT !.op = "to_decode", !.sep = sep, !.name = name]

InitCodec ==
    /\ files = EmptyFs
    /\ COUNTER = [p \in Pids |-> 0]
    /\ wpid = [w \in Writers |-> 1]
    /\ writer = [w \in Writers |-> InitWriter]
    /\ appeared = {}
    /\ entry = [h \in Callers |-> NoEntry]
    /\ last = [h \in Callers |-> NoLast]
    /\ mentry = [h \in Callers |-> NoMailEntry]
    /\ \/ \E sep \in Separators, id \in Seqs(IdChars, MaxIdLen),
             supplied \in SuppliedOrders : codec = ToEncode(sep, id, supplied)
       \/ \E sep \in Separators, name \in Seqs(NameChars, MaxNameLen) :
             codec = ToDecode(sep, name)
    /\ dirs = {}
    /\ coll = NoColl

NextCodec ==
    \/ encode
    \/ decode
    \/ decode_name
    \/ from_path_name

SpecCodec == InitCodec /\ [][NextCodec]_vars

\* an identifier that holds neither the separator nor a path separator
ValidId(id, sep) == \A i \in 1..Len(id) : id[i] \notin {sep, "/"}

\* C11: for every flag set S, in whatever order it is supplied, and every
\* identifier I without separator and without "/", the encoded name is
\* I + sep + "2," + the letters of S in sorted order, one per flag, and
\* decoding it gives back I and S; the letters P, R, S, T, D, F stand one to
\* one for Passed, Replied, Seen, Trashed, Draft, Flagged.
C11_DecodeInvertsEncode ==
    /\ \A f \in Flag : as_ref(f) = Letter[f] /\ try_from(Letter[f]) = {f}
    /\ \A c \in NameChars \cup IdChars :
           try_from(c) # {} => \E f \in Flag : c = Letter[f]
    /\ (codec.op = "decode" /\ ValidId(codec.id, codec.sep)) =>
           /\ codec.rid = codec.id
           /\ codec.rflags = Collect(codec.supplied)
           /\ codec.name = codec.id \o <<codec.sep, "2", ",">>
                                    \o Canonical(Collect(codec.supplied))

\* C11 witness: Seen and Passed, supplied in that order under an identifier
\* that holds a flag letter, were encoded and decoded.
C11_Witness_UnsortedSupply ==
    /\ codec.op = "decode"
    /\ codec.id = <<"S", "2">>
    /\ codec.supplied = <<"Seen", "Passed">>
    /\ codec.rflags = {"Passed", "Seen"}

\* the positions where sep + "2," starts in a name
InfoAt(name, sep) ==
    {i \in 1..(Len(name) - 2) :
        name[i] = sep /\ name[i + 1] = "2" /\ name[i + 2] = ","}

\* the decoding the claim describes: <<id, flags>> of a name
SplitAtLastInfo(name, sep) ==
    LET at == InfoAt(name, sep)
    IN  IF at = {} THEN <<name, {}>>
        ELSE LET i == CHOOSE k \in at : \A j \in at : j <= k
                 run == SubSeq(name, i + 3, Len(name))
             IN  <<SubSeq(name, 1, i - 1),
                   {f \in Flag : \E j \in 1..Len(run) : run[j] = Letter[f]}>>

\* C12 as stated: decoding a file name splits it at the last separator + "2,":
\* the identifier is the part before, the flags are the recognized letters of
\* the part after, and a name without separator + "2," is the identifier as a
\* whole with no flags; for MaildirEntry::id / flags and MailEntry::from_path.
C12_DecodeSplitsAtLastInfo ==
    codec.op \in {"decode_name", "from_path"} =>
        <<codec.rid, codec.rflags>> = SplitAtLastInfo(codec.name, codec.sep)

(***************************************************************************)
(* Deliveries one after the other: a call of write_new or write_cur starts *)
(* when no other call is running; with I/O errors.                         *)
(***************************************************************************)
Running(w) == writer[w].pc \notin {"idle", "done"}
Succeeded(w) == Returned(w) /\ writer[w].res.ok

CallAlone(w) ==
    /\ \A v \in Writers : ~Running(v)
    /\ Call(w)

NextDeliver ==
    \/ \E w \in Writers : CallAlone(w)
    \/ \E w \in Writers : OpenTmp(w, TRUE)
    \/ \E w \in Writers : WriteAll(w, TRUE)
    \/ \E w \in Writers : SyncAll(w, TRUE)
    \/ \E w \in Writers : GenerateId(w, TRUE)
    \/ \E w \in Writers : RenameTmp(w, TRUE)
    \/ \E w \in Writers : Reread(w, TRUE)

SpecDeliver == InitWrite /\ [][NextDeliver]_vars

\* the identifiers generate_id can give to the file of writer w
FinalIds(w) ==
    {generate_id(generate_tmp_id(Secs, nanos, counter, wpid[w]),
                 Dev, writer[w].ino, Hostname) :
        nanos \in 0..MaxNanos, counter \in 0..(2 * Cardinality(Writers))}

\* writer v was called after the entry at p was delivered
CalledSince(v, p) == writer[v].pc # "idle" /\ p \in writer[v].before

\* C13: after write_new(data) has succeeded, the entry it returned lies
\* directly in new of the mailbox, its flag set is empty, its content is data,
\* and, until the next call, read() on the mailbox yields the entries it
\* yielded before the call and this one more.
C13_WriteNewAddsOneEntry ==
    \A w \in Writers : (Succeeded(w) /\ writer[w].new) =>
        LET p == writer[w].res.path
        IN  /\ Parent(p) = NewDir(Inbox)
            /\ p \in DOMAIN files
            /\ EntryFlags(p.name, DEFAULT_INFO_SEPARATOR) = {}
            /\ files[p].data = Payload(w)
            /\ p \notin writer[w].before
            /\ (\A v \in Writers \ {w} : ~CalledSince(v, p)) =>
                   ReadPaths(files, Inbox) = writer[w].before \cup {p}

\* C13 witness: write_new has succeeded on a mailbox where read() yielded
\* nothing, and read() yields its entry alone.
C13_Witness_FirstDelivery ==
    /\ Succeeded(1) /\ writer[1].new /\ writer[1].before = {}
    /\ ReadPaths(files, Inbox) = {writer[1].res.path}
    /\ writer[2].pc = "idle"

\* C14: after write_cur(data, F) has succeeded, the entry it returned lies
\* directly in cur of the mailbox, its file name is the finalized identifier
\* + separator + "2," + the sorted letters of F (":2,PS" for Passed and Seen,
\* ":2," for no flag), and flags() on it is F.
C14_WriteCurEncodesTheFlags ==
    \A w \in Writers : (Succeeded(w) /\ ~writer[w].new) =>
        LET p == writer[w].res.path
            F == writer[w].flags
            n == Len(p.name)
        IN  /\ Parent(p) = CurDir(Inbox)
            /\ p \in DOMAIN files
            /\ \E id \in FinalIds(w) :
                   p.name = id \o <<":", "2", ",">> \o Canonical(F)
            /\ F = {"Passed", "Seen"} =>
                   SubSeq(p.name, n - 4, n) = <<":", "2", ",", "P", "S">>
            /\ F = {} => SubSeq(p.name, n - 2, n) = <<":", "2", ",">>
            /\ EntryFlags(p.name, DEFAULT_INFO_SEPARATOR) = F

\* C14 witness: write_cur with Passed and Seen has succeeded.
C14_Witness_PassedSeen ==
    /\ Succeeded(2) /\ ~writer[2].new
    /\ writer[2].flags = {"Passed", "Seen"}
    /\ EntryFlags(writer[2].res.path.name, DEFAULT_INFO_SEPARATOR)
           = {"Passed", "Seen"}

(***************************************************************************)
(* Copies and moves between two mailboxes.                                 *)
(***************************************************************************)
\* copy(B) or move(B) of an entry of another mailbox has succeeded
Crossed(h, op) ==
    /\ last[h].op = op /\ last[h].ok /\ last[h].tried
    /\ last[h].entry.path.mdir # last[h].mdir
    /\ last[h].entry.path.sub \in {NEW_DIR, CUR}

\* where copy(B) and move(B) put the file
Arrival(h) == Join(CurDir(last[h].mdir), last[h].entry.path.name)

\* what C15 says of a move that has succeeded
MovedAcross(h) ==
    Crossed(h, "move") =>
        /\ FileAt(files, Arrival(h)) = last[h].file
        /\ last[h].file # NoFile
        /\ last[h].entry.path \notin DOMAIN files
        /\ ReadCount(files)[last[h].entry.path.mdir]
               = last[h].count[last[h].entry.path.mdir] - 1

\* what C15 says of a copy that has succeeded, but for the count of B
CopiedAcross(h) ==
    Crossed(h, "copy") =>
        /\ Arrival(h) \in DOMAIN files
        /\ files[Arrival(h)].data = last[h].file.data
        /\ last[h].file # NoFile
        /\ FileAt(files, last[h].entry.path) = last[h].file
        /\ ReadCount(files)[last[h].entry.path.mdir]
               = last[h].count[last[h].entry.path.mdir]

\* C15 as stated: after copy(B) has succeeded on an entry of another mailbox
\* A, cur of B holds a file of the same name and content, the original is
\* still in A, read() of A yields as many entries as before and read() of B
\* one more; after move(B) has succeeded the file is in cur of B under the same
\* name and A no longer holds it.
C15_CopyAddsOneToTheTarget ==
    \A h \in Callers :
        /\ MovedAcross(h)
        /\ CopiedAcross(h)
        /\ Crossed(h, "copy") =>
               ReadCount(files)[last[h].mdir] = last[h].count[last[h].mdir] + 1

\* C15 amended: as above, but read() of B yields one more entry only when cur
\* of B held no file of that name before the copy; when it did, the copy
\* overwrites that file and read() of B yields as many entries as before.
C15_CopyAddsOneUnlessOverwriting ==
    \A h \in Callers :
        /\ MovedAcross(h)
        /\ CopiedAcross(h)
        /\ Crossed(h, "copy") =>
               ReadCount(files)[last[h].mdir] =
                   last[h].count[last[h].mdir] + (IF last[h].dest THEN 0 ELSE 1)

\* C15 witness: a copy into another mailbox has overwritten the file that an
\* earlier copy left there.
C15_Witness_CopiedTwice ==
    /\ Crossed(1, "copy")
    /\ last[1].dest
    /\ last[1].count["B"] = 1
    /\ ReadCount(files)["B"] = 1

(***************************************************************************)
(* The collection: Maildirs (maildir.rs).  A directory is the sequence of  *)
(* the segments of its path, a segment the sequence of its characters; the *)
(* directories cur, new and tmp are segments of one piece.                 *)
(***************************************************************************)
\* the most mailboxes the collection is asked to hold at a time
MaxBoxes == 2
\* the names of the root directory: without and with a leading dot
RootNames == {<<"r">>, <<".", "r">>}
\* the segments of the names handed to the collection
NameSegs == {<<"a">>, <<".", "a">>, <<".", ".", "a">>}
\* the names: the root, one segment, a segment below another
Names == {<<>>} \cup {<<s>> : s \in NameSegs}
             \cup {<<s, t>> : s \in NameSegs, t \in NameSegs}
\* a directory that is made beside the collection, and a mailbox inside it
Plain == <<"p">>
DotPlain == <<".", "p">>

\* Maildir::cur, Maildir::new, Maildir::tmp as directories
SubDirs(m) == {m \o <<<<CUR>>>>, m \o <<<<NEW_DIR>>>>, m \o <<<<TMP>>>>}

\* an exists that asks for the directory alone
ExistsRootOnly(d, m) == m \in d

\* Maildir::exists
Exists(d, m) == m \in d /\ SubDirs(m) \subseteq d

\* d is p or lies below p
Below(p, d) == Len(p) <= Len(d) /\ SubSeq(d, 1, Len(p)) = p
Prefixes(p) == {SubSeq(p, 1, k) : k \in 1..Len(p)}

RECURSIVE trim_start_matches(_)
\* str::trim_start_matches('.')
trim_start_matches(seg) ==
    IF seg # <<>> /\ Head(seg) = "." THEN trim_start_matches(Tail(seg)) ELSE seg

\* a mapping that joins the name to the root in both modes
maildir_joined(root, maildirpp, name) == root \o name

\* Maildirs::maildir, the path: in Maildir++ mode every segment becomes "." +
\* the segment without its leading dots, otherwise the name is joined to the
\* root
maildir(root, maildirpp, name) ==
    IF maildirpp
    THEN root \o [i \in 1..Len(name) |-> <<".">> \o trim_start_matches(name[i])]
    ELSE root \o name

\* MaildirBuilder::build: the files of tmp older than 36 hours are removed
build(f, aged, m) ==
    [p \in {q \in DOMAIN f : ~(Parent(q) = TmpDir(m) /\ q \in aged)} |-> f[p]]

\* a create_all that makes the root directory alone
create_all_root_only(d, m) == d \cup Prefixes(m)

\* fs::create_dir_all of the mailbox and of its cur, new and tmp
create_all(d, m) == d \cup Prefixes(m) \cup SubDirs(m)

\* a removal of the directory alone, leaving what lies below it
remove_dir_only(d, m) == d \ {m}

\* fs::remove_dir_all
remove_dir_all(d, m) == {x \in d : ~Below(m, x)}
remove_files_all(f, m) == [p \in {q \in DOMAIN f : ~Below(m, q.mdir)} |-> f[p]]

\* the mailboxes of a directory tree
Boxes(d) == {m \in d : Exists(d, m)}

\* the entries WalkDir yields: the root and all that lies below it
WalkDir(d, f, root) ==
    IF root \notin d THEN {}
    ELSE {x \in d : Below(root, x)}
             \cup {p.mdir \o <<<<p.sub>>, p.name>> : p \in DOMAIN f}

\* the name Maildirs::iter gives to an entry
EntryName(root, maildirpp, x) ==
    LET sub == SubSeq(x, Len(root) + 1, Len(x))
    IN  IF ~maildirpp THEN sub
        ELSE IF x = root THEN <<root[Len(root)]>>
        ELSE [i \in 1..Len(sub) |-> trim_start_matches(sub[i])]

\* Maildirs::iter
iter(d, f, root, maildirpp) ==
    LET named == {x \in WalkDir(d, f, root) :
                     ~maildirpp \/ (x[Len(x)] # <<>> /\ x[Len(x)][1] = ".")}
    IN  {[path |-> x, name |-> EntryName(root, maildirpp, x)] :
            x \in {y \in named : Exists(d, y)}}

CollFrame ==
    UNCHANGED <<COUNTER, wpid, writer, appeared, entry, last, mentry, codec>>

\* the record of a call on the collection
Did(op, name, m, ok, out) ==
    [coll EXCEPT !.op = op, !.name = name, !.path = m, !.ok = ok, !.out = out,
                 !.kept = (dirs' = dirs /\ files' = files)]

\* Maildirs::create(name)
create(name) ==
    /\ Cardinality(Boxes(dirs)) < MaxBoxes
    /\ LET m == maildir(coll.root, coll.maildirpp, name)
       IN  /\ files' = build(files, coll.aged, m)
           /\ dirs' = create_all(dirs, m)
           /\ coll' = Did("create", name, m, TRUE, {})
    /\ CollFrame

\* Maildirs::remove(name), of Maildirs; the record keeps what iter() listed
\* before the call
remove_maildir(name) ==
    /\ LET m == maildir(coll.root, coll.maildirpp, name)
           listed == iter(dirs, files, coll.root, coll.maildirpp)
       IN  IF m \in dirs
           THEN /\ dirs' = remove_dir_all(dirs, m)
                /\ files' = remove_files_all(build(files, coll.aged, m), m)
                /\ coll' = Did("remove", name, m, TRUE, listed)
           ELSE /\ files' = build(files, coll.aged, m)
                /\ UNCHANGED dirs
                /\ coll' = Did("remove", name, m, FALSE, listed)
    /\ CollFrame

\* Maildirs::find(name) and Maildirs::get(name)
find(op, name) ==
    /\ LET m == maildir(coll.root, coll.maildirpp, name)
       IN  /\ files' = build(files, coll.aged, m)
           /\ UNCHANGED dirs
           /\ coll' = Did(op, name, m, Exists(dirs, m), {})
    /\ CollFrame

\* Maildirs::iter(), collected
iterate ==
    /\ UNCHANGED <<dirs, files>>
    /\ coll' = Did("iter", <<>>, coll.root, TRUE,
                   iter(dirs, files, coll.root, coll.maildirpp))
    /\ CollFrame

\* fs::create_dir of a directory beside the mailboxes, as the tests make
create_dir(x) ==
    /\ x \notin dirs
    /\ SubSeq(x, 1, Len(x) - 1) \in dirs
    /\ dirs' = dirs \cup {x}
    /\ UNCHANGED files
    /\ coll' = Did("create_dir", <<>>, x, TRUE, {})
    /\ CollFrame

\* Maildir::from(path).create_all(), as the tests make for the root
maildir_create_all(m) ==
    /\ Cardinality(Boxes(dirs)) < MaxBoxes
    /\ dirs' = create_all(dirs, m)
    /\ UNCHANGED files
    /\ coll' = Did("create_all", <<>>, m, TRUE, {})
    /\ CollFrame

\* a file left in tmp of the mailbox "a"
LeftTmp(root, maildirpp) ==
    Join(TmpDir(maildir(root, maildirpp, <<<<"a">>>>)),
         generate_tmp_id(Secs, 0, 0, 1))

InitColl ==
    /\ COUNTER = [p \in Pids |-> 0]
    /\ wpid = [w \in Writers |-> 1]
    /\ writer = [w \in Writers |-> InitWriter]
    /\ appeared = {}
    /\ entry = [h \in Callers |-> NoEntry]
    /\ last = [h \in Callers |-> NoLast]
    /\ mentry = [h \in Callers |-> NoMailEntry]
    /\ codec = NoCodec
    /\ \E r \in RootNames, pp \in BOOLEAN :
          LET root == IF pp THEN <<r>> ELSE <<<<"r">>>>
              left == LeftTmp(root, pp)
          IN  \/ /\ dirs \in {{}, {root}}
                 /\ files = EmptyFs
                 /\ coll = [op |-> "none", root |-> root, maildirpp |-> pp,
                            name |-> <<>>, path |-> <<>>, ok |-> TRUE,
                            out |-> {}, kept |-> TRUE, aged |-> {}]
              \/ /\ dirs = create_all({root}, left.mdir)
                 /\ files = With(EmptyFs, left, File(<<>>, 1))
                 /\ \E aged \in SUBSET {left} :
                       coll = [op |-> "none", root |-> root, maildirpp |-> pp,
                               name |-> <<>>, path |-> <<>>, ok |-> TRUE,
                               out |-> {}, kept |-> TRUE, aged |-> aged]

NextColl ==
    \/ \E name \in Names : create(name)
    \/ \E name \in Names : remove_maildir(name)
    \/ \E name \in Names : find("find", name)
    \/ \E name \in Names : find("get", name)
    \/ iterate
    \/ create_dir(coll.root \o <<DotPlain>>)
    \/ \E m \in {coll.root, coll.root \o <<Plain, <<".", "a">>>>} :
          maildir_create_all(m)

SpecColl == InitColl /\ [][NextColl]_vars

(***************************************************************************)
(* Claims about the collection.                                            *)
(***************************************************************************)
\* a segment without its leading dots
Undotted(seg) ==
    LET dots == {k \in 0..Len(seg) : \A j \in 1..k : seg[j] = "."}
        n == CHOOSE k \in dots : \A j \in dots : j <= k
    IN  SubSeq(seg, n + 1, Len(seg))

\* the directory has cur, new and tmp
HasAll(m) ==
    /\ m \in dirs
    /\ \A sub \in {CUR, NEW_DIR, TMP} : m \o <<<<sub>>>> \in dirs

\* the directories strictly below the root that have cur, new and tmp
BoxesBelow == {m \in dirs : Below(coll.root, m) /\ m # coll.root /\ HasAll(m)}

\* the segments of a directory below the root
Segments(m) == SubSeq(m, Len(coll.root) + 1, Len(m))
Dotted(m) == \A i \in 1..Len(Segments(m)) : Segments(m)[i][1] = "."

\* the logical name of a mailbox
LogicalName(m) ==
    IF coll.maildirpp
    THEN [i \in 1..Len(Segments(m)) |-> Undotted(Segments(m)[i])]
    ELSE Segments(m)

\* the path the naming grammar gives to a name
GrammarPath(name) ==
    IF coll.maildirpp
    THEN coll.root \o [i \in 1..Len(name) |-> <<".">> \o Undotted(name[i])]
    ELSE coll.root \o name

\* C16: when the mailboxes below the root are those made by create (in
\* Maildir++ mode none lies behind a segment without a dot), iter() yields,
\* below the root, exactly the directories that have cur, new and tmp, each
\* under its logical name (the segments without their leading dots in
\* Maildir++ mode, the relative path otherwise); it yields no directory that
\* lacks one of cur, new, tmp: no intermediate parent, no plain directory and
\* no root without them.
C16_IterYieldsTheMailboxes ==
    (coll.op = "iter" /\ (coll.maildirpp => \A m \in BoxesBelow : Dotted(m))) =>
        /\ {e \in coll.out : e.path # coll.root}
               = {[path |-> m, name |-> LogicalName(m)] : m \in BoxesBelow}
        /\ \A e \in coll.out : HasAll(e.path)

\* C16 witness: after create("a/a") and the making of a plain directory,
\* iter() in Maildir++ mode has yielded "a/a" alone, and neither the parent
\* .a, nor the plain directory, nor the root.
C16_Witness_NestedAlone ==
    /\ coll.op = "iter" /\ coll.maildirpp
    /\ coll.out = {[path |-> coll.root \o <<<<".", "a">>, <<".", "a">>>>,
                    name |-> <<<<"a">>, <<"a">>>>]}
    /\ coll.root \o <<DotPlain>> \in dirs
    /\ ~HasAll(coll.root \o <<<<".", "a">>>>)

\* C17 as stated: in Maildir++ mode, whenever the root has cur, new and tmp,
\* iter() yields the root, whatever the name of the root directory.
C17_RootAlwaysConsidered ==
    (coll.op = "iter" /\ coll.maildirpp /\ HasAll(coll.root)) =>
        \E e \in coll.out : e.path = coll.root

\* C18 as stated: in Maildir++ mode iter() yields no directory that is reached
\* from the root through a segment that does not start with a dot.
C18_OnlyDottedSegments ==
    (coll.op = "iter" /\ coll.maildirpp) =>
        \A e \in coll.out : Dotted(e.path)

\* C19: create, find, get and remove work on the mailbox at the path the
\* naming grammar gives to the name: in Maildir++ mode the root followed by
\* "." + each segment without its leading dots, otherwise the root followed by
\* the segments as they are; names that differ in leading dots only are one
\* mailbox: after create it exists, find and get tell whether it exists,
\* after remove it is gone.
C19_NamesMapByTheGrammar ==
    coll.op \in {"create", "find", "get", "remove"} =>
        /\ coll.path = GrammarPath(coll.name)
        /\ coll.op = "create" => coll.ok /\ HasAll(coll.path)
        /\ coll.op \in {"find", "get"} => (coll.ok <=> HasAll(coll.path))
        /\ coll.op = "remove" => coll.path \notin dirs

\* C19 witness: get(".a/..a") has found the mailbox at root/.a/.a in Maildir++
\* mode.
C19_Witness_GetThroughDots ==
    /\ coll.op = "get" /\ coll.ok /\ coll.maildirpp
    /\ coll.name = <<<<".", "a">>, <<".", ".", "a">>>>
    /\ coll.path = coll.root \o <<<<".", "a">>, <<".", "a">>>>

\* C20 as stated: find(name) and get(name) leave the file system as it was.
C20_FindAndGetKeepTheFileSystem ==
    coll.op \in {"find", "get"} => coll.kept

(***************************************************************************)
(* Removal from the collection: mailboxes beside and below one another,    *)
(* among them a mailbox that is named like a directory of its parent.      *)
(***************************************************************************)
\* the names: the root, "a", "a/a", "a/cur" and "b"
RemoveNames ==
    {<<>>, <<<<"a">>>>, <<<<"a">>, <<"a">>>>, <<<<"a">>, <<CUR>>>>, <<<<"b">>>>}

NextRemove ==
    \/ \E name \in RemoveNames : create(name)
    \/ \E name \in RemoveNames : remove_maildir(name)
    \/ \E name \in RemoveNames : find("find", name)
    \/ iterate

SpecRemove == InitColl /\ [][NextRemove]_vars

\* what iter() lists in the present state
ListedNow == iter(dirs, files, coll.root, coll.maildirpp)
\* the removed directory is cur, new or tmp of the mailbox m, or lies below one
InsideSubDir(m) == \E s \in SubDirs(m) : Below(s, coll.path)

\* the removed directory was a mailbox that iter() listed before the call
WasListed == \E e \in coll.out : e.path = coll.path

\* C21 as stated: after remove(name) of a mailbox it is not found, iter() lists
\* neither it nor a mailbox below its directory, and every other mailbox that
\* was listed before still exists and is still listed.
C21_RemoveKeepsEveryOtherMailbox ==
    coll.op = "remove" /\ WasListed =>
        /\ ~Exists(dirs, coll.path)
        /\ \A e \in ListedNow : ~Below(coll.path, e.path)
        /\ \A e \in coll.out :
              ~Below(coll.path, e.path) => Exists(dirs, e.path) /\ e \in ListedNow

\* C21 amended: the same, for every other mailbox unless the removed directory
\* is its cur, new or tmp or lies below one of them.
C21_RemoveKeepsTheMailboxesOutside ==
    coll.op = "remove" =>
        /\ ~Exists(dirs, coll.path)
        /\ \A e \in ListedNow : ~Below(coll.path, e.path)
        /\ \A e \in coll.out :
              ~Below(coll.path, e.path) /\ ~InsideSubDir(e.path)
                  => Exists(dirs, e.path) /\ e \in ListedNow

\* a mailbox that had a mailbox below it was removed, and another is left
C21_Witness_RemovedWithNested ==
    /\ coll.op = "remove" /\ coll.ok
    /\ \E e \in coll.out : Below(coll.path, e.path) /\ e.path # coll.path
    /\ \E e \in coll.out : ~Below(coll.path, e.path) /\ e \in ListedNow

(***************************************************************************)
(* One mailbox on the file system: Maildir::exists, create, create_all,    *)
(* remove and remove_all (maildir.rs), with directories and files beside   *)
(* them.                                                                   *)
(***************************************************************************)
\* the directory the mailbox lies in, and the mailbox
Home == <<<<"r">>>>
Box == Home \o <<<<"m">>>>
\* a directory that is not part of a mailbox
Stray == <<"x">>
\* the names of the files put into the mailbox: a message, a message with
\* flags, and a file whose name starts with a dot
PutNames == {<<"1">>, <<"1", ":", "2", ",", "S">>, <<".", "1">>}

\* the identifiers asked for: of the messages, of the dot-file, of no file
FindIds == {<<"1">>, <<".", "1">>, <<"2">>}

\* the directory a file lies in
DirOf(p) == p.mdir \o <<<<p.sub>>>>
\* the directories and the files directly inside the directory x
ChildDirs(d, x) == {y \in d : Len(y) = Len(x) + 1 /\ Below(x, y)}
ChildFiles(f, x) == {p \in DOMAIN f : DirOf(p) = x}

\* a create_dir that takes an existing directory for a success
fs_create_dir_lenient(d, x) ==
    IF Len(x) > 1 /\ SubSeq(x, 1, Len(x) - 1) \notin d THEN "NotFound"
    ELSE "none"

\* fs::create_dir: the error it returns, "none" when it makes the directory
fs_create_dir(d, x) ==
    IF x \in d THEN "AlreadyExists"
    ELSE IF Len(x) > 1 /\ SubSeq(x, 1, Len(x) - 1) \notin d THEN "NotFound"
    ELSE "none"

\* a remove_dir that removes a directory with what it holds
fs_remove_dir_forced(d, f, x) ==
    IF x \notin d THEN "NotFound" ELSE "none"

\* fs::remove_dir: the error it returns, "none" when it removes the directory
fs_remove_dir(d, f, x) ==
    IF x \notin d THEN "NotFound"
    ELSE IF ChildDirs(d, x) # {} \/ ChildFiles(f, x) # {} THEN "NotEmpty"
    ELSE "none"

RECURSIVE create_dirs(_, _)
\* fs::create_dir of one directory after another, stopped by the first error
create_dirs(d, xs) ==
    IF xs = <<>> THEN [dirs |-> d, err |-> "none"]
    ELSE LET e == fs_create_dir(d, Head(xs))
         IN  IF e # "none" THEN [dirs |-> d, err |-> e]
             ELSE create_dirs(d \cup {Head(xs)}, Tail(xs))

RECURSIVE remove_dirs(_, _, _)
\* fs::remove_dir of one directory after another, stopped by the first error
remove_dirs(d, f, xs) ==
    IF xs = <<>> THEN [dirs |-> d, err |-> "none"]
    ELSE LET e == fs_remove_dir(d, f, Head(xs))
         IN  IF e # "none" THEN [dirs |-> d, err |-> e]
             ELSE remove_dirs(remove_dir_all(d, Head(xs)), f, Tail(xs))

\* the state of the file system before a call, and the error of the call
Before(err) ==
    [dirs |-> dirs, files |-> files, err |-> err, yield |-> <<{}, {}>>,
     id |-> <<>>, found |-> {}]

\* Maildir::create
Maildir_create(m) ==
    /\ LET r == create_dirs(dirs, <<m, m \o <<<<CUR>>>>, m \o <<<<NEW_DIR>>>>,
                                   m \o <<<<TMP>>>>>>)
       IN  /\ dirs' = r.dirs
           /\ UNCHANGED files
           /\ coll' = Did("Maildir::create", <<>>, m, r.err = "none",
                          Before(r.err))
    /\ CollFrame

\* Maildir::create_all
Maildir_create_all(m) ==
    /\ dirs' = create_all(dirs, m)
    /\ UNCHANGED files
    /\ coll' = Did("Maildir::create_all", <<>>, m, TRUE, Before("none"))
    /\ CollFrame

\* Maildir::remove
Maildir_remove(m) ==
    /\ LET r == remove_dirs(dirs, files, <<m \o <<<<CUR>>>>, m \o <<<<NEW_DIR>>>>,
                                           m \o <<<<TMP>>>>, m>>)
       IN  /\ dirs' = r.dirs
           /\ files' = [p \in {q \in DOMAIN files : DirOf(q) \in r.dirs}
                           |-> files[p]]
           /\ coll' = Did("Maildir::remove", <<>>, m, r.err = "none",
                          Before(r.err))
    /\ CollFrame

\* Maildir::remove_all: fs::remove_dir_all returns an error when the
\* directory does not exist
Maildir_remove_all(m) ==
    /\ IF m \in dirs
       THEN /\ dirs' = remove_dir_all(dirs, m)
            /\ files' = remove_files_all(files, m)
            /\ coll' = Did("Maildir::remove_all", <<>>, m, TRUE, Before("none"))
       ELSE /\ UNCHANGED <<dirs, files>>
            /\ coll' = Did("Maildir::remove_all", <<>>, m, FALSE,
                           Before("NotFound"))
    /\ CollFrame

\* a file is put into cur, new or tmp of the mailbox
put_file(m, sub, name) ==
    /\ m \o <<<<sub>>>> \in dirs
    /\ Path(m, sub, name) \notin DOMAIN files
    /\ files' = With(files, Path(m, sub, name), File(<<>>, 1))
    /\ UNCHANGED dirs
    /\ coll' = Did("put", <<>>, m, TRUE, Before("none"))
    /\ CollFrame

\* fs::create_dir of a directory inside the mailbox or inside its cur
make_dir(x) ==
    /\ fs_create_dir(dirs, x) = "none"
    /\ dirs' = dirs \cup {x}
    /\ UNCHANGED files
    /\ coll' = Did("mkdir", <<>>, x, TRUE, Before("none"))
    /\ CollFrame

\* fs::remove_dir of one directory of the mailbox
drop_dir(x) ==
    /\ fs_remove_dir(dirs, files, x) = "none"
    /\ dirs' = dirs \ {x}
    /\ UNCHANGED files
    /\ coll' = Did("rmdir", <<>>, x, TRUE, Before("none"))
    /\ CollFrame

\* fs::read_dir: the entries of the directory x, directories and files
read_dir(d, f, x) ==
    {[kind |-> "dir", name |-> y[Len(y)]] : y \in ChildDirs(d, x)}
        \cup {[kind |-> "file", name |-> p.name] : p \in ChildFiles(f, x)}

\* str::starts_with(".")
starts_with_dot(name) == name # <<>> /\ name[1] = "."

\* a read that keeps the directories it meets
read_entries_unfiltered(d, f, m, sub) ==
    {Path(m, sub, e.name) :
        e \in {e \in read_dir(d, f, m \o <<<<sub>>>>) : ~starts_with_dot(e.name)}}

\* Maildir::read on one of new and cur: the entries that are files and whose
\* name does not start with a dot
read_entries(d, f, m, sub) ==
    {Path(m, sub, e.name) :
        e \in {e \in read_dir(d, f, m \o <<<<sub>>>>) :
                  e.kind = "file" /\ ~starts_with_dot(e.name)}}

\* Maildir::read: read_dir(new) chained with read_dir(cur); the result holds
\* what new yields, then what cur yields (read_dir fixes no order inside a
\* directory)
Maildir_read(m) ==
    /\ UNCHANGED <<dirs, files>>
    /\ IF {m \o <<<<NEW_DIR>>>>, m \o <<<<CUR>>>>} \subseteq dirs
       THEN coll' = Did("Maildir::read", <<>>, m, TRUE,
                        [Before("none") EXCEPT
                            !.yield = <<read_entries(dirs, files, m, NEW_DIR),
                                        read_entries(dirs, files, m, CUR)>>])
       ELSE coll' = Did("Maildir::read", <<>>, m, FALSE, Before("NotFound"))
    /\ CollFrame

\* Maildir::find(id) and Maildir::get(id): the first file of the scan of new,
\* then of cur, whose identifier is id
Maildir_find(op, m, id) ==
    /\ UNCHANGED <<dirs, files>>
    /\ IF {m \o <<<<NEW_DIR>>>>, m \o <<<<CUR>>>>} \subseteq dirs
       THEN LET found == FindCandidates(files, m, DEFAULT_INFO_SEPARATOR, id)
                rec == [Before("none") EXCEPT !.id = id]
            IN  \/ \E p \in found :
                      coll' = Did(op, <<>>, m, TRUE, [rec EXCEPT !.found = {p}])
                \/ /\ found = {}
                   /\ coll' = Did(op, <<>>, m, op = "Maildir::find",
                                  [rec EXCEPT !.err =
                                      IF op = "Maildir::find" THEN "none"
                                      ELSE "GetMaildirEntryNotFoundError"])
       ELSE coll' = Did(op, <<>>, m, FALSE,
                        [Before("NotFound") EXCEPT !.id = id])
    /\ CollFrame

InitMailbox ==
    /\ COUNTER = [p \in Pids |-> 0]
    /\ wpid = [w \in Writers |-> 1]
    /\ writer = [w \in Writers |-> InitWriter]
    /\ appeared = {}
    /\ entry = [h \in Callers |-> NoEntry]
    /\ last = [h \in Callers |-> NoLast]
    /\ mentry = [h \in Callers |-> NoMailEntry]
    /\ codec = NoCodec
    /\ dirs \in {{}, {Home}}
    /\ files = EmptyFs
    /\ coll = [op |-> "none", root |-> Home, maildirpp |-> FALSE,
               name |-> <<>>, path |-> <<>>, ok |-> TRUE,
               out |-> [dirs |-> {}, files |-> EmptyFs, err |-> "none",
                        yield |-> <<{}, {}>>, id |-> <<>>, found |-> {}],
               kept |-> TRUE, aged |-> {}]

NextMailbox ==
    \/ Maildir_create(Box)
    \/ Maildir_create_all(Box)
    \/ Maildir_remove(Box)
    \/ Maildir_remove_all(Box)
    \/ \E sub \in {CUR, NEW_DIR, TMP}, name \in PutNames : put_file(Box, sub, name)
    \/ \E x \in {Box \o <<Stray>>, Box \o <<<<CUR>>, Stray>>} : make_dir(x)
    \/ \E x \in SubDirs(Box) : drop_dir(x)
    \/ Maildir_read(Box)
    \/ \E id \in FindIds : Maildir_find("Maildir::find", Box, id)
    \/ \E id \in FindIds : Maildir_find("Maildir::get", Box, id)

SpecMailbox == InitMailbox /\ [][NextMailbox]_vars

\* the call of the mailbox that was made last
Called(op) == coll.op = op /\ coll.path = Box
\* Maildir::exists before the last call
ExistedBefore(m) == Exists(coll.out.dirs, m)

\* C22 as stated: remove_all on a mailbox whose root directory does not exist
\* succeeds, so a second remove_all right after the first succeeds as well.
C22_RemoveAllOfAMissingRootSucceeds ==
    Called("Maildir::remove_all") /\ Box \notin coll.out.dirs => coll.ok

\* the directories of a mailbox: the root, cur, new and tmp
FourDirs(m) == {m} \cup SubDirs(m)
\* the directory x held nothing before the last call
WasEmpty(x) ==
    ChildDirs(coll.out.dirs, x) = {} /\ ChildFiles(coll.out.files, x) = {}
\* nothing is left of the directory x
Gone(x) ==
    /\ \A y \in dirs : ~Below(x, y)
    /\ \A p \in DOMAIN files : ~Below(x, DirOf(p))

\* C23: create_all succeeds on a mailbox that exists in full and leaves the
\* directories and every stored message as they were; on a mailbox that is
\* there in part it makes the missing directories and nothing else; after a
\* successful create_all exists() is true, after a successful remove_all
\* exists() is false.
C23_CreateAllIsIdempotent ==
    /\ Called("Maildir::create_all") =>
          /\ coll.ok
          /\ Exists(dirs, Box)
          /\ files = coll.out.files
          /\ coll.out.dirs \subseteq dirs
          /\ dirs \ coll.out.dirs \subseteq FourDirs(Box) \cup {Home}
          /\ ExistedBefore(Box) => dirs = coll.out.dirs
    /\ Called("Maildir::remove_all") /\ coll.ok => ~Exists(dirs, Box)

\* create_all was called on a mailbox that held a message and missed a
\* directory
C23_Witness_CompletedAroundAMessage ==
    /\ Called("Maildir::create_all")
    /\ Box \in coll.out.dirs /\ ~ExistedBefore(Box)
    /\ DOMAIN files # {}

\* C24: create() on a mailbox whose root directory exists fails with the
\* already-exists error and changes nothing; on a missing root whose parent
\* exists it makes root, cur, new and tmp, and exists() is true afterwards.
C24_CreateFailsOnAnExistingRoot ==
    Called("Maildir::create") =>
        /\ Box \in coll.out.dirs =>
              ~coll.ok /\ coll.out.err = "AlreadyExists" /\ coll.kept
        /\ Box \notin coll.out.dirs /\ Home \in coll.out.dirs =>
              /\ coll.ok
              /\ dirs = coll.out.dirs \cup FourDirs(Box)
              /\ files = coll.out.files
              /\ Exists(dirs, Box)

\* create() was called on a root directory that was there without its tmp
C24_Witness_CreateOnAPartialMailbox ==
    /\ Called("Maildir::create")
    /\ Box \in coll.out.dirs /\ Box \o <<<<TMP>>>> \notin coll.out.dirs

\* C25: remove() succeeds only when cur, new and tmp exist and are empty and
\* the root holds nothing but them, and returns an error otherwise;
\* remove_all on an existing root deletes the root and all that is below it.
C25_RemoveNeedsEmptyDirectories ==
    /\ Called("Maildir::remove") /\ coll.ok =>
          /\ FourDirs(Box) \subseteq coll.out.dirs
          /\ \A x \in SubDirs(Box) : WasEmpty(x)
          /\ ChildDirs(coll.out.dirs, Box) = SubDirs(Box)
          /\ Gone(Box)
    /\ Called("Maildir::remove_all") /\ Box \in coll.out.dirs =>
          coll.ok /\ Gone(Box)

\* remove() was refused because new held a message, after it had removed cur
C25_Witness_RemoveRefused ==
    /\ Called("Maildir::remove") /\ ~coll.ok /\ coll.out.err = "NotEmpty"
    /\ Box \o <<<<CUR>>>> \in coll.out.dirs \ dirs
    /\ ChildFiles(files, Box \o <<<<NEW_DIR>>>>) # {}

\* the files of the mailbox in one of its directories
FilesIn(sub) == {p \in DOMAIN files : p.mdir = Box /\ p.sub = sub}

\* C26: read() yields exactly the files directly inside new and cur whose name
\* does not start with a dot, those of new before those of cur, and never a
\* directory, a dot-file or a file of tmp.
C26_ReadYieldsTheMessages ==
    Called("Maildir::read") /\ coll.ok =>
        /\ coll.out.yield[1] = {p \in FilesIn(NEW_DIR) : ~starts_with_dot(p.name)}
        /\ coll.out.yield[2] = {p \in FilesIn(CUR) : ~starts_with_dot(p.name)}
        /\ \A i \in {1, 2} : \A p \in coll.out.yield[i] :
              /\ p \in DOMAIN files
              /\ p.sub # TMP
              /\ p.name[1] # "."
              /\ DirOf(p) \o <<p.name>> \notin dirs

\* read() was called on a mailbox with a message in new, a dot-file and a
\* directory in cur, and a file in tmp
C26_Witness_ReadAmongOthers ==
    /\ Called("Maildir::read") /\ coll.ok
    /\ coll.out.yield[1] # {}
    /\ \E p \in FilesIn(CUR) : starts_with_dot(p.name)
    /\ Box \o <<<<CUR>>, Stray>> \in dirs
    /\ FilesIn(TMP) # {}

\* the identifier of a file of the mailbox
IdOf(p) == EntryId(p.name, DEFAULT_INFO_SEPARATOR)
\* what read() enumerates in the present state
Enumerated ==
    read_entries(dirs, files, Box, NEW_DIR) \cup read_entries(dirs, files, Box, CUR)

\* C27 as stated: find(id) returns the first file of new, then of cur, whose
\* identifier is id, and returns None exactly when no message enumerated by
\* read() has that identifier; get(id) returns the not-found error in exactly
\* that case and an entry as find does otherwise.
C27_FindReturnsNoneWhenReadHasNone ==
    (Called("Maildir::find") \/ Called("Maildir::get"))
        /\ coll.out.err # "NotFound" =>
        /\ \A p \in coll.out.found :
              /\ IdOf(p) = coll.out.id
              /\ p.sub = CUR => \A q \in FilesIn(NEW_DIR) : IdOf(q) # coll.out.id
        /\ coll.out.found = {} <=> \A p \in Enumerated : IdOf(p) # coll.out.id
        /\ Called("Maildir::get") =>
              (coll.out.err = "GetMaildirEntryNotFoundError" <=>
                  \A p \in Enumerated : IdOf(p) # coll.out.id)

\* the same over the files of new and cur, dot-files among them
FindReturnsNoneWhenNoFileMatches ==
    (Called("Maildir::find") \/ Called("Maildir::get"))
        /\ coll.out.err # "NotFound" =>
        /\ \A p \in coll.out.found :
              /\ IdOf(p) = coll.out.id
              /\ p.sub = CUR => \A q \in FilesIn(NEW_DIR) : IdOf(q) # coll.out.id
        /\ coll.out.found = {} <=>
              \A p \in FilesIn(NEW_DIR) \cup FilesIn(CUR) : IdOf(p) # coll.out.id
        /\ Called("Maildir::get") =>
              (coll.out.err = "GetMaildirEntryNotFoundError" <=> coll.out.found = {})

(***************************************************************************)
(* The identifier generator: generate_tmp_id (maildir.rs) called by the    *)
(* threads of one process.  COUNTER is an AtomicUsize; its width is kept   *)
(* small so that it wraps around.                                          *)
(***************************************************************************)
\* the number of bits of the counter
CounterBits == 2
\* the number of calls made: more than the counter has values
MaxCalls == 5
\* the process the threads belong to
ThePid == 1

\* a fetch_add that adds nothing
fetch_add_nothing(c) == c

\* AtomicUsize::fetch_add(1, SeqCst): the value stored, wrapping around
fetch_add(c) == (c + 1) % (2 ^ CounterBits)

CounterFrame ==
    UNCHANGED <<files, wpid, entry, last, mentry, codec, dirs, coll>>

\* SystemTime::now(): the thread reads the clock
now(t) ==
    /\ writer[t].pc = "idle"
    /\ Cardinality(appeared)
          + Cardinality({u \in Writers : writer[u].pc = "timed"}) < MaxCalls
    /\ \E nanos \in 0..MaxNanos :
          writer' = [writer EXCEPT ![t] = [pc |-> "timed", nanos |-> nanos]]
    /\ UNCHANGED <<COUNTER, appeared>>
    /\ CounterFrame

\* COUNTER.fetch_add(1, SeqCst) and format!: the thread takes the value of
\* the counter and returns the identifier; n counts the calls that took a
\* value before
generate(t) ==
    /\ writer[t].pc = "timed"
    /\ LET c == COUNTER[ThePid]
       IN  /\ COUNTER' = [COUNTER EXCEPT ![ThePid] = fetch_add(c)]
           /\ appeared' = appeared \cup
                 {[n |-> Cardinality(appeared), thread |-> t, counter |-> c,
                   nanos |-> writer[t].nanos,
                   id |-> generate_tmp_id(Secs, writer[t].nanos, c, ThePid)]}
    /\ writer' = [writer EXCEPT ![t] = [pc |-> "idle", nanos |-> 0]]
    /\ CounterFrame

InitCounter ==
    /\ COUNTER = [p \in Pids |-> 0]
    /\ wpid = [w \in Writers |-> ThePid]
    /\ writer = [w \in Writers |-> [pc |-> "idle", nanos |-> 0]]
    /\ appeared = {}
    /\ entry = [h \in Callers |-> NoEntry]
    /\ last = [h \in Callers |-> NoLast]
    /\ mentry = [h \in Callers |-> NoMailEntry]
    /\ codec = NoCodec
    /\ dirs = {}
    /\ files = EmptyFs
    /\ coll = NoColl

NextCounter ==
    \/ \E t \in Writers : now(t)
    \/ \E t \in Writers : generate(t)

SpecCounter == InitCounter /\ [][NextCounter]_vars

\* two calls with fewer than 2^CounterBits calls from the one to the other
BeforeWrapAround(a, b) == a.n < b.n /\ b.n - a.n < 2 ^ CounterBits

\* C28: the calls of the generator in one process return pairwise distinct
\* strings: each call takes a fresh value of the counter, which goes up by
\* exactly one per call, and no two calls, of one thread or of several, take
\* the same value before the counter wraps around.
C28_GeneratedIdsAreDistinct ==
    \A a \in appeared, b \in appeared :
        /\ b.n = a.n + 1 => b.counter = (a.counter + 1) % (2 ^ CounterBits)
        /\ BeforeWrapAround(a, b) => a.counter # b.counter /\ a.id # b.id

\* two threads took values one right after the other at the same reading of
\* the clock, and the counter has wrapped around since
C28_Witness_TwoThreadsSameClock ==
    /\ \E a \in appeared, b \in appeared :
          b.n = a.n + 1 /\ a.thread # b.thread /\ a.nanos = b.nanos
    /\ \E a \in appeared, b \in appeared : a.n < b.n /\ a.counter = b.counter

(***************************************************************************)
(* The legacy mailbox: Maildir::copy_to (lib.rs).                          *)
(***************************************************************************)
\* Maildir::find of lib.rs: the entries find may return for the id
legacy_found(f, m, id) ==
    LET inNew == {p \in Listing(f, NewDir(m)) : LegacyId(p.name) = id}
        inCur == {p \in Listing(f, CurDir(m)) : LegacyId(p.name) = id}
    IN  IF inNew # {} THEN inNew ELSE inCur

\* a comparison that never takes two paths for the same
same_path_never(src, dst) == FALSE

\* src_path == dst_path
same_path(src, dst) == src = dst

\* the record of a call of copy_to
CopyRec(m, id, target, found, err) ==
    [LegacyRec("copy_to", 2, [id |-> id, target |-> target, found |-> found,
                              err |-> err, before |-> files])
        EXCEPT !.mdir = m, !.ok = (err = "none")]

\* Maildir::copy_to(id, target) of lib.rs, on the mailbox m; the file system
\* holds as many files as it has inode numbers.  The record of the handle's
\* last call is cleared, so that it tells the calls made since the copy.
copy_to(m, id, target, faults) ==
    /\ LET found == legacy_found(files, m, id)
       IN  \/ /\ found = {}
              /\ UNCHANGED files
              /\ last' = [last EXCEPT ![1] = NoLast, ![2] =
                             CopyRec(m, id, target, NoPath, "FindEmailError")]
           \/ \E p \in found :
                 LET dst == Join(CurDir(target), p.name)
                 IN  IF same_path(p, dst)
                     THEN /\ UNCHANGED files
                          /\ last' = [last EXCEPT ![1] = NoLast, ![2] =
                                CopyRec(m, id, target, p, "CopyEmailSamePathError")]
                     ELSE \/ /\ dst \in DOMAIN files \/ FreeInos(files) # {}
                             /\ files' = CopyTo(files, p, dst, CopyIno(files, dst))
                             /\ last' = [last EXCEPT ![1] = NoLast, ![2] =
                                   CopyRec(m, id, target, p, "none")]
                          \/ /\ faults
                             /\ UNCHANGED files
                             /\ last' = [last EXCEPT ![1] = NoLast, ![2] =
                                   CopyRec(m, id, target, p, "IoError")]
    /\ UNCHANGED <<COUNTER, wpid, writer, appeared, entry, mentry, codec, dirs,
                   coll>>

NextCopyTo ==
    \/ legacy_find(1, "A", Id1)
    \/ \E f \in LegacyFlagArgs : set_flag(1, f, TRUE)
    \/ \E folder \in {NEW_DIR, CUR} : move_to(1, folder, TRUE)
    \/ \E m \in Mdirs, target \in Mdirs, id \in {Id1, <<"m">>} :
          copy_to(m, id, target, TRUE)

SpecCopyTo == InitEntry /\ [][NextCopyTo]_vars

\* the path copy_to writes to
CopyDest(l) == Join(CurDir(l.arg.target), l.arg.found.name)

\* C29: copy_to(id, target) on a message whose path is target/cur/<its file
\* name> returns the copy-to-same-path error and copies nothing, so that the
\* message is still found with its content; a copy to another mailbox is not
\* refused, and when it succeeds the message is found in both mailboxes
\* (as long as no later call has changed the files).
C29_CopyToTheSamePathIsRefused ==
    LET l == last[2]
    IN  l.op = "copy_to" /\ l.arg.found # NoPath /\ last[1] = NoLast =>
            /\ l.arg.found = CopyDest(l) =>
                  /\ ~l.ok /\ l.arg.err = "CopyEmailSamePathError"
                  /\ files = l.arg.before
                  /\ legacy_found(files, l.mdir, l.arg.id) # {}
            /\ l.arg.target # l.mdir =>
                  /\ l.arg.err \in {"none", "IoError"}
                  /\ l.ok =>
                        /\ legacy_found(files, l.mdir, l.arg.id) # {}
                        /\ legacy_found(files, l.arg.target, l.arg.id) # {}
                        /\ files[CopyDest(l)].data = l.arg.before[l.arg.found].data
                        /\ files[l.arg.found] = l.arg.before[l.arg.found]

\* a copy of a message of cur into its own mailbox was refused, the message
\* having been copied to the other mailbox before
C29_Witness_RefusedAfterACopy ==
    LET l == last[2]
    IN  /\ l.op = "copy_to" /\ l.arg.err = "CopyEmailSamePathError"
        /\ last[1] = NoLast
        /\ l.arg.target = l.mdir
        /\ \E p \in DOMAIN files :
              p.mdir # l.mdir /\ p.sub = CUR /\ p.name = l.arg.found.name

(***************************************************************************)
(* The legacy write protocol: Maildir::store (lib.rs) with its RemoveOnDrop *)
(* guard.  Each writer is a process of its own with its own COUNTER; two    *)
(* processes that share the mailbox from two hosts or two pid namespaces    *)
(* may have the same pid.                                                   *)
(***************************************************************************)
\* generate_id of lib.rs
legacy_generate_id(tmpid, dev, ino, hostname, size) ==
    tmpid \o <<"V">> \o Dec(dev) \o <<"I">> \o Dec(ino) \o <<".">> \o hostname
          \o <<",", "S", "=">> \o Dec(size)

IdleStore == [pc |-> "idle", new |-> TRUE, tmp |-> NoPath, ino |-> 0,
              renamed |-> FALSE, res |-> Pending]

StoreFrame == UNCHANGED <<wpid, entry, last, mentry, codec, dirs, coll>>

\* store, the loop: generate_tmp_id and create_new of the temporary file; on
\* AlreadyExists the loop goes round with the next value of the counter, any
\* other error is returned (the guard does not exist yet)
store_open(w, new, faults) ==
    /\ writer[w].pc = "idle"
    /\ \E nanos \in 0..MaxNanos :
          LET tmp == Join(TmpDir(Inbox),
                          generate_tmp_id(Secs, nanos, COUNTER[w], wpid[w]))
          IN  /\ COUNTER' = [COUNTER EXCEPT ![w] = @ + 1]
              /\ \/ /\ tmp \in DOMAIN files
                    /\ UNCHANGED <<files, writer>>
                 \/ /\ tmp \notin DOMAIN files
                    /\ \E ino \in FreeInos(files) :
                          /\ files' = With(files, tmp, File(<<>>, ino))
                          /\ writer' = [writer EXCEPT ![w] =
                                [IdleStore EXCEPT !.pc = "opened", !.new = new,
                                                  !.tmp = tmp, !.ino = ino]]
                 \/ /\ faults
                    /\ UNCHANGED files
                    /\ writer' = [writer EXCEPT ![w].pc = "done",
                                                ![w].res = Err("open")]
    /\ UNCHANGED appeared
    /\ StoreFrame

\* tmp_file.write_all(data)?; tmp_file.sync_all()?: the data goes to the file
\* the handle is open on, wherever its name is; on an error the call returns
\* and the guard is dropped
store_write(w, faults) ==
    /\ writer[w].pc = "opened"
    /\ \/ /\ files' = [p \in DOMAIN files |->
                          IF files[p].ino = writer[w].ino
                          THEN File(Payload(w), files[p].ino) ELSE files[p]]
          /\ writer' = [writer EXCEPT ![w].pc = "written"]
       \/ /\ faults
          /\ UNCHANGED files
          /\ writer' = [writer EXCEPT ![w].pc = "dropping", ![w].res = Err("write")]
    /\ UNCHANGED <<COUNTER, appeared>>
    /\ StoreFrame

\* generate_id(tmp_file)? and fs::rename(&tmp_path, &newpath)?
store_rename(w) ==
    /\ writer[w].pc = "written"
    /\ \E nanos \in 0..MaxNanos :
          LET id == legacy_generate_id(
                        generate_tmp_id(Secs, nanos, COUNTER[w], wpid[w]),
                        Dev, writer[w].ino, Hostname, Len(Payload(w)))
              name == IF writer[w].new THEN id ELSE id \o <<SEP, "2">>
              newpath == Path(Inbox, IF writer[w].new THEN NEW_DIR ELSE CUR, name)
          IN  /\ COUNTER' = [COUNTER EXCEPT ![w] = @ + 1]
              /\ IF RenameOk(files, writer[w].tmp)
                 THEN /\ files' = RenameTo(files, writer[w].tmp, newpath)
                      /\ writer' = [writer EXCEPT ![w].pc = "dropping",
                                                  ![w].renamed = TRUE,
                                                  ![w].res = Ok(newpath)]
                 ELSE /\ UNCHANGED files
                      /\ writer' = [writer EXCEPT ![w].pc = "dropping",
                                                  ![w].res = Err("rename")]
    /\ UNCHANGED appeared
    /\ StoreFrame

\* the return of store: _remove_guard goes out of scope and Drop runs
\* fs::remove_file(&self.path_to_remove).ok(); the removals are recorded
store_drop(w) ==
    /\ writer[w].pc = "dropping"
    /\ files' = IF writer[w].tmp \in DOMAIN files
                THEN Without(files, writer[w].tmp) ELSE files
    /\ appeared' = appeared \cup
          {[by |-> w, renamed |-> writer[w].renamed,
            removed |-> (writer[w].tmp \in DOMAIN files),
            ino |-> FileAt(files, writer[w].tmp).ino,
            own |-> writer[w].ino]}
    /\ writer' = [writer EXCEPT ![w].pc = "done"]
    /\ UNCHANGED COUNTER
    /\ StoreFrame

InitStore ==
    /\ files = EmptyFs
    /\ COUNTER = [p \in Pids |-> 0]
    /\ wpid \in [Writers -> Pids]
    /\ writer = [w \in Writers |-> IdleStore]
    /\ appeared = {}
    /\ entry = [h \in Callers |-> NoEntry]
    /\ last = [h \in Callers |-> NoLast]
    /\ mentry = [h \in Callers |-> NoMailEntry]
    /\ codec = NoCodec
    /\ dirs = {}
    /\ coll = NoColl

NextStore ==
    \/ \E w \in Writers, new \in BOOLEAN : store_open(w, new, TRUE)
    \/ \E w \in Writers : store_write(w, TRUE)
    \/ \E w \in Writers : store_rename(w)
    \/ \E w \in Writers : store_drop(w)

SpecStore == InitStore /\ [][NextStore]_vars

\* C30 as stated: after its rename into new or cur has succeeded a writer
\* removes nothing at its former temporary path, so that it never deletes a
\* temporary file another writer has created under that name in the meantime.
C30_FinishedWriterRemovesNoTmpFile ==
    \A e \in appeared : e.renamed => ~e.removed

(***************************************************************************)
(* Claims about the end and the beginning of the write protocol.           *)
(***************************************************************************)
\* the step in which the call of w returns from its look at the destination
RereadReturns(w) == writer[w].pc = "reread" /\ writer'[w].pc = "done"

\* C31: write_new and write_cur return an entry handle only if the listing of
\* the destination directory taken after the rename holds the destination
\* path, and the handle is bound to that path; when the file is not at that
\* path any more they return the entry-not-found error for that path (or the
\* error of the listing), never a handle.
C31_HandleOnlyWhenListed ==
    [][\A w \in Writers : RereadReturns(w) =>
          /\ writer'[w].res.ok =>
                /\ writer[w].next \in DOMAIN files
                /\ writer'[w].res.path = writer[w].next
          /\ writer[w].next \notin DOMAIN files =>
                /\ ~writer'[w].res.ok
                /\ writer'[w].res.at \in {"find", "read_dir"}
                /\ writer'[w].next = writer[w].next
          /\ writer'[w].res.at = "find" => writer[w].next \notin DOMAIN files]_vars

\* the call returned the entry-not-found error: its file had been renamed or
\* removed by another caller after the rename
C31_Witness_NotFoundAfterRename ==
    /\ Returned(1) /\ writer[1].res.at = "find"
    /\ writer[1].next \notin DOMAIN files

\* the temporary paths a turn of the loop of w may try
Attempts(w) ==
    {TmpPathOf(Inbox, generate_tmp_id(Secs, nanos, COUNTER[wpid[w]], wpid[w])) :
        nanos \in 0..MaxNanos}
\* a turn of the loop of w
LoopTurn(w) == writer[w].pc = "open" /\ COUNTER' # COUNTER

\* C32: in the loop that creates the temporary file only a collision with an
\* existing name makes the loop go round, with a new name; any other error of
\* the creation is returned at once, and a collision is never what the caller
\* gets.
C32_OnlyCollisionsAreRetried ==
    [][\A w \in Writers : LoopTurn(w) =>
          /\ writer'[w].pc = "open" =>
                /\ Attempts(w) \cap DOMAIN files # {}
                /\ files' = files /\ writer' = writer
                /\ COUNTER'[wpid[w]] = COUNTER[wpid[w]] + 1
          /\ writer'[w].pc = "done" =>
                /\ writer'[w].res = Err("open")
                /\ files' = files
          /\ writer'[w].pc \in {"open", "write", "done"}]_vars

\* the call went round the loop once, past the file left in tmp, and has
\* its temporary file
C32_Witness_WentRoundOnce ==
    /\ StaleTmp \in DOMAIN files
    /\ writer[1].tmp \in {TmpPathOf(Inbox, generate_tmp_id(Secs, nanos, 1, 1)) :
                            nanos \in 0..MaxNanos}

\* the same for the loop of the legacy store
LegacyOnlyCollisionsAreRetried ==
    [][\A w \in Writers : writer[w].pc = "idle" /\ COUNTER'[w] # COUNTER[w] =>
          /\ writer'[w].pc = "idle" =>
                /\ files' = files
                /\ \E nanos \in 0..MaxNanos :
                      Join(TmpDir(Inbox),
                           generate_tmp_id(Secs, nanos, COUNTER[w], wpid[w]))
                          \in DOMAIN files
          /\ writer'[w].pc = "done" => writer'[w].res = Err("open") /\ files' = files
          /\ writer'[w].pc \in {"idle", "opened", "done"}]_vars

(***************************************************************************)
(* A call of write_new or write_cur that is scheduled: every step of the   *)
(* call that stays possible is taken in the end.  Files of earlier runs    *)
(* lie in tmp; no I/O errors.                                              *)
(***************************************************************************)
\* two files left in tmp by earlier runs of the process with pid 1
StaleTmp2 == Join(TmpDir(Inbox), generate_tmp_id(Secs, 0, 1, 1))
TwoStaleFs == With(StaleFs, StaleTmp2, File(<<>>, 2))

InitLoop ==
    /\ files \in {EmptyFs, StaleFs, TwoStaleFs}
    /\ COUNTER = [p \in Pids |-> 0]
    /\ wpid = [w \in Writers |-> 1]
    /\ writer = [w \in Writers |-> InitWriter]
    /\ appeared = {}
    /\ entry = [h \in Callers |-> NoEntry]
    /\ last = [h \in Callers |-> NoLast]
    /\ mentry = [h \in Callers |-> NoMailEntry]
    /\ codec = NoCodec
    /\ dirs = {}
    /\ coll = NoColl

NextLoop ==
    \/ Call(1)
    \/ OpenTmp(1, FALSE)
    \/ WriteAll(1, FALSE)
    \/ SyncAll(1, FALSE)
    \/ GenerateId(1, FALSE)
    \/ RenameTmp(1, FALSE)
    \/ Reread(1, FALSE)

FairLoop ==
    /\ WF_vars(OpenTmp(1, FALSE))
    /\ WF_vars(WriteAll(1, FALSE))
    /\ WF_vars(SyncAll(1, FALSE))
    /\ WF_vars(GenerateId(1, FALSE))
    /\ WF_vars(RenameTmp(1, FALSE))
    /\ WF_vars(Reread(1, FALSE))

SpecLoop == InitLoop /\ [][NextLoop]_vars /\ FairLoop

\* C33: a call of write_new or write_cur that is in its loop, whatever files
\* lie in tmp, gets its temporary file in the end and finishes with success;
\* every turn of the loop takes a new value of the counter.
C33_TheLoopTerminates ==
    /\ (writer[1].pc = "open") ~> Created(1)
    /\ (writer[1].pc = "open") ~> (Returned(1) /\ writer[1].res.ok)
    /\ [][LoopTurn(1) => COUNTER'[1] = COUNTER[1] + 1]_vars

\* the call has finished after two collisions with the files left in tmp
C33_Witness_FinishedAfterCollisions ==
    /\ {StaleTmp, StaleTmp2} \subseteq DOMAIN files
    /\ Returned(1) /\ writer[1].res.ok
    /\ COUNTER[1] = 4

(***************************************************************************)
(* Claims about the files of a mailbox under the operations on entries.    *)
(***************************************************************************)
\* the files of new and cur of the mailbox m
Messages(f, m) == Listing(f, NewDir(m)) \cup Listing(f, CurDir(m))

\* C34 as stated: after any sequence of write_new, write_cur, flag mutations,
\* copy, move and remove, no two files of new and cur of a mailbox decode to
\* the same identifier.
C34_IdentifiersAreUnique ==
    \A m \in Mdirs : \A p \in Messages(files, m), q \in Messages(files, m) :
        p # q => EntryId(p.name, DEFAULT_INFO_SEPARATOR)
                    # EntryId(q.name, DEFAULT_INFO_SEPARATOR)

\* C35 as stated: a flag mutation on one entry removes or replaces no other
\* file, so that new and cur of every mailbox hold as many files after the
\* call as before.
C35_FlagMutationKeepsTheOtherFiles ==
    \A h \in Callers :
        last[h].op \in FlagOps => ReadCount(files) = last[h].count

\* C36 as stated: when remove() returns an error none of the four directories
\* has been deleted: a mailbox that existed before the call exists after it
\* and holds all its messages.
C36_FailedRemoveDeletesNothing ==
    Called("Maildir::remove") /\ ~coll.ok =>
        /\ FourDirs(Box) \cap coll.out.dirs \subseteq dirs
        /\ ExistedBefore(Box) => Exists(dirs, Box)
        /\ files = coll.out.files

\* C37 as stated: the name of every entry iter() yields is mapped by the
\* collection to the directory of the mailbox yielded with it, in both
\* layouts, the entry of the root among them.
C37_YieldedNamesMapBack ==
    coll.op = "iter" =>
        \A e \in coll.out : maildir(coll.root, coll.maildirpp, e.name) = e.path

(***************************************************************************)
(* The informational separator of a collection, of the mailboxes obtained  *)
(* from it and of the entries obtained from them (maildir.rs).             *)
(***************************************************************************)
\* no mailbox obtained yet
NoBox == [path |-> <<>>, sep |-> DEFAULT_INFO_SEPARATOR, live |-> FALSE]
\* the identifier of the messages written
WriteId == <<"1">>

\* impl From<P> for Maildir: the separator is the default of the platform
Maildir_from(path) == [path |-> path, sep |-> DEFAULT_INFO_SEPARATOR, live |-> TRUE]
\* Maildir::with_info_separator
with_info_separator(mdir, sep) == [mdir EXCEPT !.sep = sep]
\* MaildirBuilder::new().with_info_separator(sep).build(path), the mailbox
builder_build(sep, path) == with_info_separator(Maildir_from(path), sep)

SepFrame == UNCHANGED <<COUNTER, wpid, writer, appeared, last, mentry, codec>>

\* Maildirs::create(name), Maildirs::find(name) and Maildirs::get(name), with
\* the mailbox they return
obtain(op, name) ==
    /\ LET m == maildir(coll.root, coll.maildirpp, name)
           mdir == builder_build(coll.sep, m)
       IN  IF op = "create"
           THEN /\ dirs' = create_all(dirs, m)
                /\ coll' = [coll EXCEPT !.op = op, !.mbox = mdir]
           ELSE /\ UNCHANGED dirs
                /\ coll' = [coll EXCEPT !.op = op,
                               !.mbox = IF Exists(dirs, m) THEN mdir ELSE NoBox]
    /\ UNCHANGED <<files, entry>>
    /\ SepFrame

\* Maildirs::iter(): one of the entries it yields, with its mailbox
iter_next ==
    /\ \E e \in iter(dirs, files, coll.root, coll.maildirpp) :
          coll' = [coll EXCEPT !.op = "iter", !.mbox = Maildir_from(e.path)]
    /\ UNCHANGED <<dirs, files, entry>>
    /\ SepFrame

\* write_new(contents) and write_cur(contents, flags) on the mailbox obtained,
\* with the file they leave and the entry they return
box_write(new, flags) ==
    /\ coll.mbox.live /\ Exists(dirs, coll.mbox.path)
    /\ LET next == NextPath(coll.mbox.path, new, coll.mbox.sep, WriteId, flags)
       IN  /\ next \notin DOMAIN files
           /\ \E ino \in FreeInos(files) :
                 files' = With(files, next, File(<<>>, ino))
           /\ entry' = [entry EXCEPT ![1] = EntryOf(next, coll.mbox.sep)]
    /\ coll' = [coll EXCEPT !.op = "write"]
    /\ UNCHANGED dirs
    /\ SepFrame

\* Maildir::read, Maildir::find(id) and Maildir::get(id) on the mailbox
\* obtained, with an entry they return
box_entry(op) ==
    /\ coll.mbox.live /\ Exists(dirs, coll.mbox.path)
    /\ \E p \in IF op = "Maildir::read" THEN ReadPaths(files, coll.mbox.path)
                ELSE FindCandidates(files, coll.mbox.path, coll.mbox.sep, WriteId) :
          entry' = [entry EXCEPT ![1] = EntryOf(p, coll.mbox.sep)]
    /\ coll' = [coll EXCEPT !.op = op]
    /\ UNCHANGED <<dirs, files>>
    /\ SepFrame

InitSep ==
    /\ COUNTER = [p \in Pids |-> 0]
    /\ wpid = [w \in Writers |-> 1]
    /\ writer = [w \in Writers |-> InitWriter]
    /\ appeared = {}
    /\ entry = [h \in Callers |-> NoEntry]
    /\ last = [h \in Callers |-> NoLast]
    /\ mentry = [h \in Callers |-> NoMailEntry]
    /\ codec = NoCodec
    /\ dirs = {Home}
    /\ files = EmptyFs
    /\ \E sep \in Separators, pp \in BOOLEAN :
          coll = [op |-> "none", root |-> Home, maildirpp |-> pp, sep |-> sep,
                  mbox |-> NoBox]

NextSep ==
    \/ \E op \in {"create", "find", "get"}, name \in {<<<<"a">>>>, <<<<"b">>>>} :
          obtain(op, name)
    \/ iter_next
    \/ \E new \in BOOLEAN, flags \in WriteFlagSets : box_write(new, flags)
    \/ \E op \in {"Maildir::read", "Maildir::find", "Maildir::get"} : box_entry(op)

SpecSep == InitSep /\ [][NextSep]_vars

\* C38 as stated: the separator configured on the collection is the separator
\* of every mailbox obtained from it by create, find, get and iter, and of
\* every entry obtained from such a mailbox.
C38_SeparatorIsCarried ==
    /\ coll.mbox.live => coll.mbox.sep = coll.sep
    /\ entry[1].live => entry[1].sep = coll.sep

\* the same for the mailboxes of create, find and get, and for the entries of
\* any mailbox with respect to the mailbox
SeparatorIsCarriedButByIter ==
    /\ coll.op \in {"create", "find", "get"} /\ coll.mbox.live
          => coll.mbox.sep = coll.sep
    /\ coll.op \in {"write", "Maildir::read", "Maildir::find", "Maildir::get"}
          => entry[1].live /\ entry[1].sep = coll.mbox.sep

(***************************************************************************)
(* The clean-up of tmp when a mailbox is built (maildir.rs,                *)
(* MaildirBuilder::build).                                                 *)
(***************************************************************************)
\* the names of the files left in the mailbox
LeftNames == {<<"1">>, <<"2">>}
\* a directory inside tmp
TmpSubDir == Box \o <<<<TMP>>, <<"d">>>>

\* an age test every file passes
old_enough_always(aged, p) == TRUE

\* metadata.modified()?.elapsed()?.as_secs() > H_36
old_enough(aged, p) == p \in aged

\* the regular files of tmp the clean-up removes when it meets no error
stale(f, aged, m) ==
    {p \in DOMAIN f : Parent(p) = TmpDir(m) /\ old_enough(aged, p)}

BuildFrame ==
    UNCHANGED <<COUNTER, wpid, writer, appeared, entry, last, mentry, codec>>

\* MaildirBuilder::build(path): read_dir(tmp) failing skips the clean-up;
\* try_for_each stops at the first error, which is dropped, so the files
\* visited before it are removed and the others stay; the mailbox is returned
\* in every case
MaildirBuilder_build(sep, m) ==
    /\ IF m \o <<<<TMP>>>> \notin dirs
       THEN /\ UNCHANGED files
            /\ coll' = [coll EXCEPT !.op = "build", !.err = FALSE, !.gone = {},
                           !.mbox = builder_build(sep, m)]
       ELSE \E err \in BOOLEAN :
            \E gone \in IF err THEN SUBSET stale(files, coll.aged, m)
                        ELSE {stale(files, coll.aged, m)} :
               /\ files' = [p \in DOMAIN files \ gone |-> files[p]]
               /\ coll' = [coll EXCEPT !.op = "build", !.err = err,
                              !.gone = gone, !.aged = @ \ gone,
                              !.mbox = builder_build(sep, m)]
    /\ UNCHANGED dirs
    /\ BuildFrame

\* a file appears in cur, new or tmp of the mailbox
leave_file(sub, name) ==
    /\ Box \o <<<<sub>>>> \in dirs
    /\ Path(Box, sub, name) \notin DOMAIN files
    /\ \E ino \in FreeInos(files) :
          files' = With(files, Path(Box, sub, name), File(<<>>, ino))
    /\ coll' = [coll EXCEPT !.op = "leave"]
    /\ UNCHANGED dirs
    /\ BuildFrame

\* a file has become more than 36 hours old
grow_old(x) ==
    /\ x \in DOMAIN files \ coll.aged
    /\ coll' = [coll EXCEPT !.op = "age", !.aged = @ \cup {x}]
    /\ UNCHANGED <<dirs, files>>
    /\ BuildFrame

\* fs::create_dir of a directory inside tmp: not a regular file, it is never
\* asked for its age
tmp_subdir ==
    /\ Box \o <<<<TMP>>>> \in dirs
    /\ TmpSubDir \notin dirs
    /\ dirs' = dirs \cup {TmpSubDir}
    /\ coll' = [coll EXCEPT !.op = "mkdir"]
    /\ UNCHANGED files
    /\ BuildFrame

InitBuild ==
    /\ COUNTER = [p \in Pids |-> 0]
    /\ wpid = [w \in Writers |-> 1]
    /\ writer = [w \in Writers |-> InitWriter]
    /\ appeared = {}
    /\ entry = [h \in Callers |-> NoEntry]
    /\ last = [h \in Callers |-> NoLast]
    /\ mentry = [h \in Callers |-> NoMailEntry]
    /\ codec = NoCodec
    /\ dirs \in {create_all({Home}, Box), {Home, Box, Box \o <<<<CUR>>>>}}
    /\ files = EmptyFs
    /\ coll = [op |-> "none", aged |-> {}, gone |-> {}, err |-> FALSE,
               mbox |-> NoBox]

NextBuild ==
    \/ \E sep \in Separators, m \in {Box, Home} : MaildirBuilder_build(sep, m)
    \/ \E sub \in {CUR, NEW_DIR, TMP}, name \in LeftNames : leave_file(sub, name)
    \/ \E x \in DOMAIN files : grow_old(x)
    \/ tmp_subdir

SpecBuild == InitBuild /\ [][NextBuild]_vars

\* C39: the clean-up of MaildirBuilder::build removes from tmp only regular
\* files whose modification time is more than 36 hours old: it removes no
\* younger file of tmp, it removes and renames nothing in new and cur (no file
\* appears, none changes), it removes no directory, and it returns the mailbox
\* also when it met an error.
C39_CleanUpRemovesOnlyOldTmpFiles ==
    [][coll'.op = "build" =>
          /\ \A p \in DOMAIN files \ DOMAIN files' :
                /\ Parent(p) = TmpDir(coll'.mbox.path)
                /\ p \in coll.aged
          /\ \A p \in DOMAIN files' : p \in DOMAIN files /\ files'[p] = files[p]
          /\ dirs' = dirs
          /\ coll'.mbox.live]_vars

\* a clean-up that met an error has removed an old file of tmp beside a
\* younger one, an old one it did not reach and an old file of cur
C39_Witness_StoppedByAnError ==
    /\ coll.op = "build" /\ coll.err /\ coll.gone # {}
    /\ \E p \in DOMAIN files : p.sub = TMP /\ p \in coll.aged
    /\ \E p \in DOMAIN files : p.sub = CUR /\ p \in coll.aged
    /\ coll.mbox.live

(***************************************************************************)
(* The content and the headers of an entry (maildir.rs,                    *)
(* MaildirEntry::read and MaildirEntry::read_headers).                     *)
(***************************************************************************)
\* the longest content of a message
MaxContent == 5

LF == "\n"
CR == "\r"
\* the bytes of a message: line feed, carriage return and any other byte
ContentBytes == {LF, CR, "a"}
\* the message whose content and headers are read
Letter1 == Path(Box, CUR, <<"1">>)

\* BufRead::read_until(b'\n', buf) from the position pos: the bytes it appends
\* to the buffer, up to and including the next line feed or up to the end
read_until(content, pos) ==
    LET feeds == {i \in pos..Len(content) : content[i] = LF}
    IN  IF feeds = {} THEN SubSeq(content, pos, Len(content))
        ELSE SubSeq(content, pos, CHOOSE i \in feeds : \A j \in feeds : i <= j)

\* a test of the end of the headers that knows the line feed alone
ends_headers_lf_only(n, buffer) == n = 1 /\ buffer[1] = LF

\* the arms of the match that end the headers: one byte read and the buffer
\* starting with LF, two bytes read and the buffer starting with CR LF
ends_headers(n, buffer) ==
    \/ n = 1 /\ buffer[1] = LF
    \/ n = 2 /\ buffer[1] = CR /\ buffer[2] = LF

\* the loop of read_headers, from the position pos of the file, with the
\* buffer and the headers gathered so far
RECURSIVE headers_loop(_, _, _, _)
headers_loop(content, pos, buffer, headers) ==
    LET line == read_until(content, pos)
        n == Len(line)
        buf == buffer \o line
    IN  IF n = 0 THEN headers
        ELSE IF ends_headers(n, buf)
        THEN headers \o (IF n = 1 THEN <<LF>> ELSE <<CR, LF>>)
        ELSE headers_loop(content, pos + n, <<>>, headers \o buf)

\* MaildirEntry::read_headers, of the content of the file
read_headers(content) == headers_loop(content, 1, <<>>, <<>>)

HeadersFrame ==
    UNCHANGED <<COUNTER, wpid, writer, appeared, entry, last, mentry, codec,
                dirs>>

\* MaildirEntry::read: the whole content of the file, or the error of fs::read
MaildirEntry_read(p) ==
    /\ coll' = [op |-> "read", ok |-> p \in DOMAIN files,
                out |-> IF p \in DOMAIN files THEN files[p].data ELSE <<>>]
    /\ UNCHANGED files
    /\ HeadersFrame

\* MaildirEntry::read_headers, or the error of File::open
MaildirEntry_read_headers(p) ==
    /\ coll' = [op |-> "read_headers", ok |-> p \in DOMAIN files,
                out |-> IF p \in DOMAIN files THEN read_headers(files[p].data)
                        ELSE <<>>]
    /\ UNCHANGED files
    /\ HeadersFrame

\* fs::remove_file of the message
remove_letter(p) ==
    /\ p \in DOMAIN files
    /\ files' = Without(files, p)
    /\ coll' = [op |-> "remove", ok |-> TRUE, out |-> <<>>]
    /\ HeadersFrame

InitHeaders ==
    /\ COUNTER = [p \in Pids |-> 0]
    /\ wpid = [w \in Writers |-> 1]
    /\ writer = [w \in Writers |-> InitWriter]
    /\ appeared = {}
    /\ entry = [h \in Callers |-> NoEntry]
    /\ last = [h \in Callers |-> NoLast]
    /\ mentry = [h \in Callers |-> NoMailEntry]
    /\ codec = NoCodec
    /\ dirs = create_all({Home}, Box)
    /\ \E content \in Seqs(ContentBytes, MaxContent) :
          files = With(EmptyFs, Letter1, File(content, 1))
    /\ coll = [op |-> "none", ok |-> TRUE, out |-> <<>>]

NextHeaders ==
    \/ MaildirEntry_read(Letter1)
    \/ MaildirEntry_read_headers(Letter1)
    \/ remove_letter(Letter1)

SpecHeaders == InitHeaders /\ [][NextHeaders]_vars

\* the positions at which a blank line of the content ends: a line feed at the
\* start of a line, or a carriage return at the start of a line and a line
\* feed after it
BlankEnds(content) ==
    {i \in 1..Len(content) :
        /\ content[i] = LF
        /\ \/ i = 1 \/ content[i - 1] = LF
           \/ /\ i >= 2 /\ content[i - 1] = CR
              /\ i = 2 \/ content[i - 2] = LF}

\* C40: read_headers returns the content up to and including its first blank
\* line (a line that is LF alone or CR LF alone), the whole content when it has
\* no blank line, and so always a prefix of what read() returns.
C40_HeadersEndAtTheFirstBlankLine ==
    coll.op = "read_headers" /\ coll.ok =>
        LET content == files[Letter1].data
            ends == BlankEnds(content)
        IN  /\ ends = {} => coll.out = content
            /\ ends # {} =>
                  coll.out = SubSeq(content, 1,
                                    CHOOSE i \in ends : \A j \in ends : i <= j)
            /\ Len(coll.out) <= Len(content)
            /\ coll.out = SubSeq(content, 1, Len(coll.out))

\* the headers of a message whose first blank line is CR LF, after a header
\* line and before a body
C40_Witness_BlankLineWithCarriageReturn ==
    /\ coll.op = "read_headers" /\ coll.ok
    /\ files[Letter1].data = <<"a", LF, CR, LF, "a">>
    /\ coll.out = <<"a", LF, CR, LF>>

====
